---- MODULE Spec2Model ----
(***************************************************************************)
(* Model of the cournot-por gateway client                                 *)
(* (plugins/cournot-por/src/client.ts): the resilient call primitive       *)
(* GatewayClient.call with its retry loop, backoff, per-attempt timeout,   *)
(* error classification and credential redaction.                          *)
(*                                                                         *)
(* JavaScript strings are modelled as sequences of one-character strings,  *)
(* so that startsWith, includes, toLowerCase and the regular-expression    *)
(* replace of redactCode are computed character by character.             *)
(***************************************************************************)
EXTENDS Integers, Sequences, FiniteSets, TLC

(***************************************************************************)
(* Bounds of the model                                                     *)
(***************************************************************************)
\* number of logical calls made one after the other on one client instance
MaxCalls == 2
\* longest text and longest credential redactCode is applied to on its own
MaxTextLen == 4
MaxCodeLen == 2
\* largest number of evidence items, reasoning steps and fallback bundles
\* buildReport is given, two more than .slice(0, 10) keeps
MaxItems == 12

(***************************************************************************)
(* Program constants, client.ts:3-5                                        *)
(***************************************************************************)
GATEWAY_URL == "https://interface.cournot.ai/play/polymarket/ai_data"
\* variant: one attempt more than client.ts:4 allows
MAX_RETRIES_four == 3 + 1
MAX_RETRIES == 3
TIMEOUT_MS == 300000

(***************************************************************************)
(* String literals of client.ts                                            *)
(***************************************************************************)
REDACTED == <<"[", "R", "E", "D", "A", "C", "T", "E", "D", "]">>
\* the fixed pieces of the messages of call (client.ts:95-97, 118-120, 126)
Lit ==
  [ GatewayReturned |-> <<"G", "a", "t", "e", "w", "a", "y", " ", "r", "e", "t", "u", "r", "n", "e", "d">>,
    NetworkErrorCalling |-> <<"N", "e", "t", "w", "o", "r", "k", " ", "e", "r", "r", "o", "r", " ", "c", "a", "l", "l", "i", "n", "g", " ">>,
    FailedAfter |-> <<"F", "a", "i", "l", "e", "d", " ", "a", "f", "t", "e", "r", " ">>,
    RetriesFor |-> <<" ", "r", "e", "t", "r", "i", "e", "s", " ", "f", "o", "r", " ">>,
    For |-> <<" ", "f", "o", "r", " ">>,
    ColonSpace |-> <<":", " ">>,
    Space |-> <<" ">> ]
\* the substrings isNetworkError looks for (client.ts:40-45)
Kw ==
  [ Fetch |-> <<"f", "e", "t", "c", "h">>,
    Network |-> <<"n", "e", "t", "w", "o", "r", "k">>,
    Econnrefused |-> <<"e", "c", "o", "n", "n", "r", "e", "f", "u", "s", "e", "d">>,
    Econnreset |-> <<"e", "c", "o", "n", "n", "r", "e", "s", "e", "t">>,
    Etimedout |-> <<"e", "t", "i", "m", "e", "d", "o", "u", "t">>,
    Socket |-> <<"s", "o", "c", "k", "e", "t">> ]

(***************************************************************************)
(* JavaScript string primitives used by client.ts                          *)
(***************************************************************************)
UpperChars == <<"A", "B", "C", "D", "E", "F", "G", "H", "I", "J", "K", "L", "M", "N", "O", "P", "Q", "R", "S", "T", "U", "V", "W", "X", "Y", "Z">>
LowerChars == <<"a", "b", "c", "d", "e", "f", "g", "h", "i", "j", "k", "l", "m", "n", "o", "p", "q", "r", "s", "t", "u", "v", "w", "x", "y", "z">>

\* String.prototype.toLowerCase, one character
LowerChar(c) ==
  IF \E i \in 1..Len(UpperChars) : UpperChars[i] = c
  THEN LowerChars[CHOOSE i \in 1..Len(UpperChars) : UpperChars[i] = c]
  ELSE c

\* String.prototype.toLowerCase
toLowerCase(s) == [i \in 1..Len(s) |-> LowerChar(s[i])]

\* true iff sub occurs in s at position i (1-based)
OccursAt(s, sub, i) ==
  /\ i >= 1
  /\ i + Len(sub) - 1 <= Len(s)
  /\ \A k \in 1..Len(sub) : s[i + k - 1] = sub[k]

\* String.prototype.includes
includes(s, sub) == \E i \in 1..(Len(s) + 1) : OccursAt(s, sub, i)

\* String.prototype.startsWith
startsWith(s, prefix) == OccursAt(s, prefix, 1)

DigitChar(d) ==
  CASE d = 0 -> "0" [] d = 1 -> "1" [] d = 2 -> "2" [] d = 3 -> "3"
    [] d = 4 -> "4" [] d = 5 -> "5" [] d = 6 -> "6" [] d = 7 -> "7"
    [] d = 8 -> "8" [] d = 9 -> "9"

RECURSIVE NumberToString(_)
\* template-literal rendering of a non-negative integer
NumberToString(n) ==
  IF n < 10 THEN <<DigitChar(n)>>
  ELSE NumberToString(n \div 10) \o <<DigitChar(n % 10)>>

(***************************************************************************)
(* redactCode, client.ts:11-15                                             *)
(***************************************************************************)
\* variant: the dot is missing from the character class
RegexMeta_noDot == {"*", "+", "?", "^", "$", "{", "}", "(", ")", "|", "[", "]", "\\"}
\* the character class of client.ts:13
RegexMeta == {".", "*", "+", "?", "^", "$", "{", "}", "(", ")", "|", "[", "]", "\\"}

RECURSIVE escapeRegExp(_)
\* code.replace(/[.*+?^${}()|[\]\\]/g, '\\$&')
escapeRegExp(s) ==
  IF s = <<>> THEN <<>>
  ELSE (IF Head(s) \in RegexMeta THEN <<"\\", Head(s)>> ELSE <<Head(s)>>)
       \o escapeRegExp(Tail(s))

RECURSIVE CompilePattern(_)
\* new RegExp(source, 'g'): a backslash makes the next character a literal,
\* an unescaped dot matches any character, every other character is a literal
CompilePattern(src) ==
  IF src = <<>> THEN <<>>
  ELSE IF Head(src) = "\\" /\ Len(src) >= 2
       THEN <<[any |-> FALSE, ch |-> src[2]]>> \o CompilePattern(Tail(Tail(src)))
       ELSE IF Head(src) = "."
            THEN <<[any |-> TRUE, ch |-> "."]>> \o CompilePattern(Tail(src))
            ELSE <<[any |-> FALSE, ch |-> Head(src)]>> \o CompilePattern(Tail(src))

\* the compiled pattern matches text at position i
MatchAt(text, pat, i) ==
  /\ i + Len(pat) - 1 <= Len(text)
  /\ \A k \in 1..Len(pat) : pat[k].any \/ text[i + k - 1] = pat[k].ch

RECURSIVE ReplaceFrom(_, _, _, _)
\* String.prototype.replace with a global pattern: scan left to right,
\* replace each match and resume after it
ReplaceFrom(text, pat, repl, i) ==
  IF Len(pat) = 0
  THEN \* the empty pattern matches before every character and at the end
       repl \o (IF i > Len(text) THEN <<>>
                ELSE <<text[i]>> \o ReplaceFrom(text, pat, repl, i + 1))
  ELSE IF i > Len(text) THEN <<>>
       ELSE IF MatchAt(text, pat, i)
            THEN repl \o ReplaceFrom(text, pat, repl, i + Len(pat))
            ELSE <<text[i]>> \o ReplaceFrom(text, pat, repl, i + 1)

\* variant: the pattern is not global, only the first match is replaced
redactCode_firstOnly(text, code) ==
  IF code = <<>> THEN text
  ELSE LET pat == CompilePattern(escapeRegExp(code))
           hits == {i \in 1..Len(text) : MatchAt(text, pat, i)}
       IN IF hits = {} THEN text
          ELSE LET i == CHOOSE h \in hits : \A g \in hits : h <= g
               IN SubSeq(text, 1, i - 1) \o REDACTED
                    \o SubSeq(text, i + Len(pat), Len(text))

\* variant: no early return for an empty credential
redactCode_noEmptyGuard(text, code) ==
  ReplaceFrom(text, CompilePattern(escapeRegExp(code)), REDACTED, 1)

redactCode(text, code) ==
  IF code = <<>> THEN text
  ELSE ReplaceFrom(text, CompilePattern(escapeRegExp(code)), REDACTED, 1)

(***************************************************************************)
(* buildEnvelope, client.ts:17-29                                          *)
(***************************************************************************)
\* JavaScript values as JSON sees them; an object is the ordered list of
\* its entries, a string a sequence of characters
JUndefined == [t |-> "undefined"]
JNull == [t |-> "null"]
JBool(b) == [t |-> "bool", b |-> b]
JNum(n) == [t |-> "num", n |-> n]
JStr(s) == [t |-> "str", s |-> s]
JArr(items) == [t |-> "arr", items |-> items]
JObj(entries) == [t |-> "obj", entries |-> entries]
Entry(k, v) == [k |-> k, v |-> v]

\* typeof v === 'object' && v !== null && !Array.isArray(v)
IsObj(v) == v.t = "obj"

\* key in obj
JHas(obj, key) == \E i \in DOMAIN obj.entries : obj.entries[i].k = key

\* obj[key], undefined when the key is absent
JGet(obj, key) ==
  IF JHas(obj, key)
  THEN obj.entries[CHOOSE i \in DOMAIN obj.entries : obj.entries[i].k = key].v
  ELSE JUndefined

RECURSIVE QuoteChars(_)
\* the characters of a JSON string literal: quote and backslash are escaped
QuoteChars(s) ==
  IF s = <<>> THEN <<>>
  ELSE (IF Head(s) \in {"\"", "\\"} THEN <<"\\", Head(s)>> ELSE <<Head(s)>>)
       \o QuoteChars(Tail(s))

Quote(s) == <<"\"">> \o QuoteChars(s) \o <<"\"">>

\* JSON.stringify leaves out the entries whose value is undefined
IsDefinedEntry(e) == e.v.t # "undefined"

RECURSIVE JSON_stringify(_), StringifyEntries(_), StringifyItems(_)
StringifyEntries(entries) ==
  IF entries = <<>> THEN <<>>
  ELSE Quote(Head(entries).k) \o <<":">> \o JSON_stringify(Head(entries).v)
       \o (IF Tail(entries) = <<>> THEN <<>> ELSE <<",">>)
       \o StringifyEntries(Tail(entries))

\* inside an array undefined is written as null
StringifyItems(items) ==
  IF items = <<>> THEN <<>>
  ELSE (IF Head(items).t = "undefined" THEN <<"n", "u", "l", "l">>
        ELSE JSON_stringify(Head(items)))
       \o (IF Tail(items) = <<>> THEN <<>> ELSE <<",">>)
       \o StringifyItems(Tail(items))

\* JSON.stringify of a value other than undefined
JSON_stringify(v) ==
  CASE v.t = "null" -> <<"n", "u", "l", "l">>
    [] v.t = "bool" -> (IF v.b THEN <<"t", "r", "u", "e">> ELSE <<"f", "a", "l", "s", "e">>)
    [] v.t = "num" -> NumberToString(v.n)
    [] v.t = "str" -> Quote(v.s)
    [] v.t = "arr" -> <<"[">> \o StringifyItems(v.items) \o <<"]">>
    [] v.t = "obj" ->
         <<"{">> \o StringifyEntries(SelectSeq(v.entries, IsDefinedEntry)) \o <<"}">>

buildEnvelope(code, path, method, payload) ==
  [code |-> code, post_data |-> JSON_stringify(payload), path |-> path, method |-> method]

(***************************************************************************)
(* Error classification, client.ts:31-47                                   *)
(***************************************************************************)
\* variant: 429 is not retried
isTransientError_no429(status) == status >= 500 \/ status = 408
isTransientError(status) == status >= 500 \/ status = 429 \/ status = 408

\* variant: an aborted transport call is not recognized
isNetworkError_noAbort(err) ==
  IF ~err.isError THEN FALSE
  ELSE LET msg == toLowerCase(err.message) IN
       \/ includes(msg, Kw.Fetch)
       \/ includes(msg, Kw.Network)
       \/ includes(msg, Kw.Econnrefused)
       \/ includes(msg, Kw.Econnreset)
       \/ includes(msg, Kw.Etimedout)
       \/ includes(msg, Kw.Socket)

\* a thrown value: isError is "instanceof Error", origin says who built it
isNetworkError(err) ==
  IF ~err.isError THEN FALSE
  ELSE LET msg == toLowerCase(err.message) IN
       \/ err.name = "AbortError"
       \/ includes(msg, Kw.Fetch)
       \/ includes(msg, Kw.Network)
       \/ includes(msg, Kw.Econnrefused)
       \/ includes(msg, Kw.Econnreset)
       \/ includes(msg, Kw.Etimedout)
       \/ includes(msg, Kw.Socket)

\* Response.ok
ResponseOk(status) == status >= 200 /\ status <= 299

\* new Error(message) built by the client
NewError(message) ==
  [isError |-> TRUE, name |-> "Error", message |-> message, origin |-> "client"]

\* `Gateway returned ${response.status} for ${path}: ${safeBody}`
GatewayReturnedMessage(status, path, safeBody) ==
  Lit.GatewayReturned \o Lit.Space \o NumberToString(status) \o Lit.For
    \o path \o Lit.ColonSpace \o safeBody

\* redactCode(`Network error calling ${path}: ${err.message}`, this.code)
NetworkErrorMessage(path, err, code) ==
  redactCode(Lit.NetworkErrorCalling \o path \o Lit.ColonSpace \o err.message, code)

\* `Failed after ${MAX_RETRIES} retries for ${path}`
FailedAfterMessage(path) ==
  Lit.FailedAfter \o NumberToString(MAX_RETRIES) \o Lit.RetriesFor \o path

\* variant: the delay grows linearly with the attempt index
Backoff_linear(attempt) ==
  IF 1000 * attempt < 10000 THEN 1000 * attempt ELSE 10000

\* Math.min(1000 * Math.pow(2, attempt), 10_000)
Backoff(attempt) ==
  IF 1000 * (2 ^ attempt) < 10000 THEN 1000 * (2 ^ attempt) ELSE 10000

(***************************************************************************)
(* Inputs: credentials, call arguments, transport outcomes                 *)
(***************************************************************************)
CodePlain == <<"k", "1">>
Codes == {<<>>, CodePlain}

Path ==
  [ Prompt |->
        <<"/", "s", "t", "e", "p", "/", "p", "r", "o", "m", "p", "t">>,
    Capabilities |->
        <<"/", "c", "a", "p", "a", "b", "i", "l", "i", "t", "i", "e", "s">>,
    Echo |->
        <<"/", "k", "1">> ]
KeyStrictMode == <<"s", "t", "r", "i", "c", "t", "_", "m", "o", "d", "e">>

\* arguments of call(path, method, payload); payloads are serializable values
CallArgs ==
  { [path |-> Path.Prompt, method |-> "POST",
     payload |-> JObj(<<Entry(KeyStrictMode, JBool(FALSE))>>)],
    [path |-> Path.Capabilities, method |-> "GET", payload |-> JObj(<<>>)],
    [path |-> Path.Echo, method |-> "POST", payload |-> JObj(<<>>)] }

\* HTTP statuses a response can carry
Statuses == {200, 400, 408, 429, 499, 500, 503}

BodyText ==
  [ Leak |->
        <<"b", "a", "d", " ", "k", "1">>,
    Socket |->
        <<"s", "o", "c", "k", "e", "t">> ]
\* texts response.text() can resolve to
BodyTexts == {<<>>, BodyText.Leak, BodyText.Socket}

KeyData == <<"d", "a", "t", "a">>
\* values response.json() can resolve to: { success: true } and
\* { data: { result: 'ok' } }
DecodedBodies ==
  { JObj(<<Entry(<<"s", "u", "c", "c", "e", "s", "s">>, JBool(TRUE))>>),
    JObj(<<Entry(KeyData, JObj(<<Entry(<<"r", "e", "s", "u", "l", "t">>, JStr(<<"o", "k">>))>>))>>) }
NoBody == JUndefined

\* messages of the values fetchFn and response.json() can reject with
Msg ==
  [ FetchFailed |-> <<"f", "e", "t", "c", "h", " ", "f", "a", "i", "l", "e", "d">>,
    ConnReset |-> <<"E", "C", "O", "N", "N", "R", "E", "S", "E", "T", " ", "k", "1">>,
    Leak |-> <<"b", "a", "d", " ", "k", "1">>,
    Prefixed |-> <<"G", "a", "t", "e", "w", "a", "y", " ", "r", "e", "t", "u", "r", "n", "e", "d", " ", "s", "o", "c", "k", "e", "t">>,
    Aborted |-> <<"a", "b", "o", "r", "t", "e", "d">>,
    Boom |-> <<"b", "o", "o", "m">>,
    JsonSyntax |-> <<"U", "n", "e", "x", "p", "e", "c", "t", "e", "d", " ", "t", "o", "k", "e", "n">>,
    BodyStream |-> <<"n", "e", "t", "w", "o", "r", "k", " ", "e", "r", "r", "o", "r">> ]

Thrown(isErr, name, message, origin) ==
  [isError |-> isErr, name |-> name, message |-> message, origin |-> origin]

\* the rejection of an aborted fetch
AbortException == Thrown(TRUE, "AbortError", Msg.Aborted, "transport")

\* values the promise of fetchFn can reject with; the last is a thrown
\* string, not an Error
TransportExceptions ==
  { Thrown(TRUE, "TypeError", Msg.FetchFailed, "transport"),
    Thrown(TRUE, "Error", Msg.ConnReset, "transport"),
    Thrown(TRUE, "Error", Msg.Leak, "transport"),
    Thrown(TRUE, "Error", Msg.Prefixed, "transport"),
    Thrown(TRUE, "Error", Msg.Boom, "transport"),
    AbortException,
    Thrown(FALSE, "", BodyText.Socket, "transport") }

\* values the promise of response.json() can reject with
DecodeExceptions ==
  { Thrown(TRUE, "SyntaxError", Msg.JsonSyntax, "decode"),
    Thrown(TRUE, "TypeError", Msg.BodyStream, "decode") }

\* lastError = null
NoError == Thrown(FALSE, "null", <<>>, "none")

NoResult == [kind |-> "none", value |-> NoBody, error |-> NoError]
\* variant: the body is returned unwrapped
Returned_unwrapped(data) ==
  [kind |-> "return",
   value |-> IF IsObj(data) /\ JHas(data, KeyData) THEN JGet(data, KeyData) ELSE data,
   error |-> NoError]
Returned(data) == [kind |-> "return", value |-> data, error |-> NoError]
Raised(err) == [kind |-> "raise", value |-> NoBody, error |-> err]

(***************************************************************************)
(* State                                                                   *)
(***************************************************************************)
VARIABLES
  code,       \* this.code, bound by the constructor
  pc,         \* where the running call is suspended: idle, fetching, text,
              \* json, sleeping, done
  callsMade,  \* number of calls started on this client
  args,       \* path, method, payload of the running call
  envelope,   \* const envelope
  attempt,    \* loop variable
  lastError,  \* let lastError
  timer,      \* the timeout timer of the attempt: none, armed, fired
  response,   \* status of the response whose body is being read, 0 if none
  trace,      \* what the running call has done so far
  result,     \* how the last call ended
  run,        \* the runPipeline invocation that drives the client, if any
  redact,     \* an application of redactCode on its own, if any
  cli,        \* the invocation of main that drives the run, if any
  other       \* the call or run that is suspended at an await while this one runs, if any

vars == <<code, pc, callsMade, args, envelope, attempt, lastError, timer, response, trace, result, run, redact, cli, other>>

\* the client is used directly, not by runPipeline
NoRun == [pc |-> "none"]
\* redactCode is not applied on its own
NoRedact == [phase |-> "none"]
\* the run is not started from the command line
NoCli == [pc |-> "none"]
\* nothing else is in progress
NoOther == [pc |-> "none"]

\* variant: the transport verb is the logical method of the call
FetchEvent_logicalMethod(a, env) ==
  [ev |-> "fetch", attempt |-> a, url |-> GATEWAY_URL, method |-> env.method,
   contentType |-> "application/json", body |-> env]

\* fetchFn(GATEWAY_URL, { method: 'POST', headers, body: JSON.stringify(envelope),
\* signal }), client.ts:81-86; body holds the envelope that is serialized
FetchEvent(a, env) ==
  [ev |-> "fetch", attempt |-> a, url |-> GATEWAY_URL, method |-> "POST",
   contentType |-> "application/json", body |-> env]
SleepEvent(a, ms) == [ev |-> "sleep", attempt |-> a, ms |-> ms]
ResponseEvent(a, status) == [ev |-> "response", attempt |-> a, status |-> status]
RejectEvent(a, err) == [ev |-> "reject", attempt |-> a, err |-> err]
TimeoutEvent(a) == [ev |-> "timeout", attempt |-> a]
TextEvent(a, ok, body) == [ev |-> "text", attempt |-> a, ok |-> ok, text |-> body]
DecodeEvent(a, ok, data, err) ==
  [ev |-> "decode", attempt |-> a, ok |-> ok, data |-> data, err |-> err]

\* no call has been made yet
NoArgs == [path |-> <<>>, method |-> "", payload |-> JObj(<<>>)]

\* constructor, client.ts:59-63
Init ==
  /\ code \in Codes
  /\ pc = "idle"
  /\ callsMade = 0
  /\ args = NoArgs
  /\ envelope = buildEnvelope(<<>>, NoArgs.path, NoArgs.method, NoArgs.payload)
  /\ attempt = 0
  /\ lastError = NoError
  /\ timer = "none"
  /\ response = 0
  /\ trace = <<>>
  /\ result = NoResult
  /\ run = NoRun
  /\ redact = NoRedact
  /\ cli = NoCli
  /\ other = NoOther

(***************************************************************************)
(* GatewayClient.call, client.ts:65-127, one action per stretch of code    *)
(* between two awaits                                                      *)
(***************************************************************************)
\* variant: the error is dropped and the promise of call never settles
Throw_neverSettles(err, tr) ==
  /\ pc' = "hung"
  /\ trace' = tr
  /\ UNCHANGED <<attempt, lastError, result>>

\* `throw` leaving call: the promise of call rejects with err
Throw(err, tr) ==
  /\ pc' = "done"
  /\ result' = Raised(err)
  /\ trace' = tr
  /\ UNCHANGED <<attempt, lastError>>

\* variant: the first recorded error is kept instead of the latest
Continue_keepFirstError(err, tr) ==
  LET kept == IF lastError = NoError THEN err ELSE lastError IN
  /\ lastError' = kept
  /\ attempt' = attempt + 1
  /\ IF attempt + 1 < MAX_RETRIES
     THEN /\ pc' = "sleeping"
          /\ trace' = Append(tr, SleepEvent(attempt + 1, Backoff(attempt + 1)))
          /\ UNCHANGED result
     ELSE /\ pc' = "done"
          /\ trace' = tr
          /\ result' = Raised(kept)

\* `continue` (client.ts:100, 119): attempt++, then either the backoff of
\* the next attempt (client.ts:71-74) or the throw after the loop
\* (client.ts:126)
Continue(err, tr) ==
  /\ lastError' = err
  /\ attempt' = attempt + 1
  /\ IF attempt + 1 < MAX_RETRIES
     THEN /\ pc' = "sleeping"
          /\ trace' = Append(tr, SleepEvent(attempt + 1, Backoff(attempt + 1)))
          /\ UNCHANGED result
     ELSE /\ pc' = "done"
          /\ trace' = tr
          /\ result' = Raised(IF err = NoError
                              THEN NewError(FailedAfterMessage(args.path))
                              ELSE err)

\* variant: the catch block without the 'Gateway returned' guard
CatchRetries_noPrefixGuard(err) ==
  /\ err.isError
  /\ isNetworkError(err)

\* the condition of client.ts:111-112 under which the catch block retries
CatchRetries(err) ==
  /\ err.isError
  /\ ~startsWith(err.message, Lit.GatewayReturned)
  /\ isNetworkError(err)

\* variant: the catch block raises a redacted copy instead of the caught value
Catch_redactedCopy(err, tr) ==
  IF CatchRetries(err)
  THEN Continue(NewError(NetworkErrorMessage(args.path, err, code)), tr)
  ELSE Throw(NewError(redactCode(err.message, code)), tr)

\* catch (err), client.ts:110-123
Catch(err, tr) ==
  IF CatchRetries(err)
  THEN Continue(NewError(NetworkErrorMessage(args.path, err, code)), tr)
  ELSE Throw(err, tr)

\* variant: the backoff is awaited before the first attempt as well
CallStart_sleepsFirst(a) ==
  /\ pc \in {"idle", "done"}
  /\ callsMade < MaxCalls
  /\ callsMade' = callsMade + 1
  /\ args' = a
  /\ envelope' = buildEnvelope(code, a.path, a.method, a.payload)
  /\ lastError' = NoError
  /\ attempt' = 0
  /\ timer' = "none"
  /\ response' = 0
  /\ result' = NoResult
  /\ trace' = <<SleepEvent(0, Backoff(0))>>
  /\ pc' = "sleeping"
  /\ UNCHANGED <<code, run, redact, cli, other>>

\* variant: the attempt counter and the last error live on from the
\* previous call
BeginCall_keepsCounters(c, a) ==
  /\ pc \in {"idle", "done"}
  /\ callsMade' = callsMade + 1
  /\ args' = a
  /\ envelope' = buildEnvelope(c, a.path, a.method, a.payload)
  /\ UNCHANGED <<lastError, attempt>>
  /\ timer' = "armed"
  /\ response' = 0
  /\ result' = NoResult
  /\ trace' = <<FetchEvent(0, envelope')>>
  /\ pc' = "fetching"

\* call() up to the first await, on a client whose credential is c:
\* envelope, lastError = null, attempt = 0, timer armed, fetchFn invoked
\* (client.ts:66-87)
BeginCall(c, a) ==
  /\ pc \in {"idle", "done"}
  /\ callsMade' = callsMade + 1
  /\ args' = a
  /\ envelope' = buildEnvelope(c, a.path, a.method, a.payload)
  /\ lastError' = NoError
  /\ attempt' = 0
  /\ timer' = "armed"
  /\ response' = 0
  /\ result' = NoResult
  /\ trace' = <<FetchEvent(0, envelope')>>
  /\ pc' = "fetching"

\* a caller other than runPipeline invokes call(path, method, payload)
CallStart(a) ==
  /\ run = NoRun
  /\ callsMade < MaxCalls
  /\ BeginCall(code, a)
  /\ UNCHANGED <<code, run, redact, cli, other>>

\* sleepFn resolves: timer armed, fetchFn invoked (client.ts:76-87)
SleepDone ==
  /\ pc = "sleeping"
  /\ timer' = "armed"
  /\ trace' = Append(trace, FetchEvent(attempt, envelope))
  /\ pc' = "fetching"
  /\ UNCHANGED <<code, callsMade, args, envelope, attempt, lastError, response, result, run, redact, cli, other>>

\* the timer callback of client.ts:78 runs controller.abort()
TimeoutFires ==
  /\ timer = "armed"
  /\ timer' = "fired"
  /\ trace' = Append(trace, TimeoutEvent(attempt))
  /\ UNCHANGED <<code, pc, callsMade, args, envelope, attempt, lastError, response, result, run, redact, cli, other>>

\* variant: the timer is cleared only when fetchFn rejects
FetchResolves_timerKept(status) ==
  /\ pc = "fetching"
  /\ timer = "armed"
  /\ response' = status
  /\ trace' = Append(trace, ResponseEvent(attempt, status))
  /\ pc' = IF ResponseOk(status) THEN "json" ELSE "text"
  /\ UNCHANGED <<code, callsMade, args, envelope, attempt, lastError, timer, result, run, redact, cli, other>>

\* fetchFn resolves with a response: clearTimeout, then response.text() or
\* response.json() is awaited (client.ts:88-93, 108)
FetchResolves(status) ==
  /\ pc = "fetching"
  /\ timer = "armed"
  /\ timer' = "none"
  /\ response' = status
  /\ trace' = Append(trace, ResponseEvent(attempt, status))
  /\ pc' = IF ResponseOk(status) THEN "json" ELSE "text"
  /\ UNCHANGED <<code, callsMade, args, envelope, attempt, lastError, result, run, redact, cli, other>>

\* fetchFn rejects: clearTimeout, catch block (client.ts:88-90, 110-123);
\* an aborted fetch rejects with the AbortError
FetchRejects(err) ==
  /\ pc = "fetching"
  /\ timer = "fired" => err = AbortException
  /\ timer' = "none"
  /\ Catch(err, Append(trace, RejectEvent(attempt, err)))
  /\ UNCHANGED <<code, callsMade, args, envelope, response, run, redact, cli, other>>

\* variant: response.text() without the .catch(() => ''), so that a failed
\* read of the body lands in the catch block
TextSettles_readFailureCaught(ok, text) ==
  /\ pc = "text"
  /\ LET body == IF ok THEN text ELSE <<>>
         safeBody == redactCode(body, code)
         err == NewError(GatewayReturnedMessage(response, args.path, safeBody))
         tr == Append(trace, TextEvent(attempt, ok, body))
     IN IF ~ok
        THEN Catch(Thrown(TRUE, "TypeError", Msg.BodyStream, "body"), tr)
        ELSE IF isTransientError(response)
             THEN Continue(err, tr)
             ELSE Catch(err, tr)
  /\ response' = 0
  /\ UNCHANGED <<code, callsMade, args, envelope, timer, run, redact, cli, other>>

\* variant: a transient status is retried without being recorded
TextSettles_notRecorded(ok, text) ==
  /\ pc = "text"
  /\ LET body == IF ok THEN text ELSE <<>>
         safeBody == redactCode(body, code)
         err == NewError(GatewayReturnedMessage(response, args.path, safeBody))
         tr == Append(trace, TextEvent(attempt, ok, body))
     IN IF isTransientError(response)
        THEN Continue(lastError, tr)
        ELSE Catch(err, tr)
  /\ response' = 0
  /\ UNCHANGED <<code, callsMade, args, envelope, timer, run, redact, cli, other>>

\* response.text().catch(() => '') settles: redaction and classification
\* by status (client.ts:93-105); the throw of client.ts:103 lands in the
\* catch block
TextSettles(ok, text) ==
  /\ pc = "text"
  /\ LET body == IF ok THEN text ELSE <<>>
         safeBody == redactCode(body, code)
         err == NewError(GatewayReturnedMessage(response, args.path, safeBody))
         tr == Append(trace, TextEvent(attempt, ok, body))
     IN IF isTransientError(response)
        THEN Continue(err, tr)
        ELSE Catch(err, tr)
  /\ response' = 0
  /\ UNCHANGED <<code, callsMade, args, envelope, timer, run, redact, cli, other>>

\* response.json() resolves: return data (client.ts:108-109)
JsonResolves(data) ==
  /\ pc = "json"
  /\ pc' = "done"
  /\ result' = Returned(data)
  /\ trace' = Append(trace, DecodeEvent(attempt, TRUE, data, NoError))
  /\ response' = 0
  /\ UNCHANGED <<code, callsMade, args, envelope, attempt, lastError, timer, run, redact, cli, other>>

\* response.json() rejects: catch block (client.ts:108, 110-123)
JsonRejects(err) ==
  /\ pc = "json"
  /\ Catch(err, Append(trace, DecodeEvent(attempt, FALSE, NoBody, err)))
  /\ response' = 0
  /\ UNCHANGED <<code, callsMade, args, envelope, timer, run, redact, cli, other>>

Next ==
  \/ \E a \in CallArgs : CallStart(a)
  \/ SleepDone
  \/ TimeoutFires
  \/ \E s \in Statuses : FetchResolves(s)
  \/ \E e \in TransportExceptions : FetchRejects(e)
  \/ \E ok \in BOOLEAN, t \in BodyTexts : TextSettles(ok, t)
  \/ \E d \in DecodedBodies : JsonResolves(d)
  \/ \E e \in DecodeExceptions : JsonRejects(e)

Spec == Init /\ [][Next]_vars

(***************************************************************************)
(* redactCode applied on its own to every short text and credential        *)
(***************************************************************************)
\* characters of the texts: two letters, a pattern metacharacter that acts
\* as a wildcard when left unescaped, and two characters of the marker, its
\* opening bracket and a letter
RedactAlphabet == {"a", "b", ".", "[", "E"}

StringsUpTo(n) == UNION {[1..k -> RedactAlphabet] : k \in 0..n}

clientVars == <<code, pc, callsMade, args, envelope, attempt, lastError, timer, response, trace, result>>

RedactInit ==
  /\ code = <<>>
  /\ pc = "idle"
  /\ callsMade = 0
  /\ args = NoArgs
  /\ envelope = buildEnvelope(<<>>, NoArgs.path, NoArgs.method, NoArgs.payload)
  /\ attempt = 0
  /\ lastError = NoError
  /\ timer = "none"
  /\ response = 0
  /\ trace = <<>>
  /\ result = NoResult
  /\ run = NoRun
  /\ \E t \in StringsUpTo(MaxTextLen), c \in StringsUpTo(MaxCodeLen) :
       redact = [phase |-> "input", text |-> t, code |-> c, out |-> <<>>]
  /\ cli = NoCli
  /\ other = NoOther

\* redactCode(text, code) is evaluated
ApplyRedact ==
  /\ redact.phase = "input"
  /\ redact' = [redact EXCEPT !.phase = "done",
                              !.out = redactCode(redact.text, redact.code)]
  /\ UNCHANGED <<clientVars, run, cli, other>>

RedactNext == ApplyRedact

RedactSpec == RedactInit /\ [][RedactNext]_vars

(***************************************************************************)
(* Response schemas, schemas.ts:3-44, and their parse                      *)
(***************************************************************************)
\* the keys of the payloads, of the responses and of the report
Key ==
  [ user_input |-> <<"u", "s", "e", "r", "_", "i", "n", "p", "u", "t">>,
    prompt_spec |-> <<"p", "r", "o", "m", "p", "t", "_", "s", "p", "e", "c">>,
    tool_plan |-> <<"t", "o", "o", "l", "_", "p", "l", "a", "n">>,
    collectors |-> <<"c", "o", "l", "l", "e", "c", "t", "o", "r", "s">>,
    include_raw_content |-> <<"i", "n", "c", "l", "u", "d", "e", "_", "r", "a", "w", "_", "c", "o", "n", "t", "e", "n", "t">>,
    evidence_bundles |-> <<"e", "v", "i", "d", "e", "n", "c", "e", "_", "b", "u", "n", "d", "l", "e", "s">>,
    reasoning_trace |-> <<"r", "e", "a", "s", "o", "n", "i", "n", "g", "_", "t", "r", "a", "c", "e">>,
    verdict |-> <<"v", "e", "r", "d", "i", "c", "t">>,
    market_id |-> <<"m", "a", "r", "k", "e", "t", "_", "i", "d">>,
    metadata |-> <<"m", "e", "t", "a", "d", "a", "t", "a">>,
    collectors_used |-> <<"c", "o", "l", "l", "e", "c", "t", "o", "r", "s", "_", "u", "s", "e", "d">>,
    execution_logs |-> <<"e", "x", "e", "c", "u", "t", "i", "o", "n", "_", "l", "o", "g", "s">>,
    errors |-> <<"e", "r", "r", "o", "r", "s">>,
    outcome |-> <<"o", "u", "t", "c", "o", "m", "e">>,
    confidence |-> <<"c", "o", "n", "f", "i", "d", "e", "n", "c", "e">>,
    por_bundle |-> <<"p", "o", "r", "_", "b", "u", "n", "d", "l", "e">>,
    por_root |-> <<"p", "o", "r", "_", "r", "o", "o", "t">>,
    roots |-> <<"r", "o", "o", "t", "s">>,
    prompt_spec_hash |-> <<"p", "r", "o", "m", "p", "t", "_", "s", "p", "e", "c", "_", "h", "a", "s", "h">>,
    evidence_root |-> <<"e", "v", "i", "d", "e", "n", "c", "e", "_", "r", "o", "o", "t">>,
    reasoning_root |-> <<"r", "e", "a", "s", "o", "n", "i", "n", "g", "_", "r", "o", "o", "t">>,
    providers |-> <<"p", "r", "o", "v", "i", "d", "e", "r", "s">>,
    items |-> <<"i", "t", "e", "m", "s">>,
    evidence_items |-> <<"e", "v", "i", "d", "e", "n", "c", "e", "_", "i", "t", "e", "m", "s">>,
    results |-> <<"r", "e", "s", "u", "l", "t", "s">>,
    snippets |-> <<"s", "n", "i", "p", "p", "e", "t", "s">>,
    title |-> <<"t", "i", "t", "l", "e">>,
    headline |-> <<"h", "e", "a", "d", "l", "i", "n", "e">>,
    name |-> <<"n", "a", "m", "e">>,
    source_url |-> <<"s", "o", "u", "r", "c", "e", "_", "u", "r", "l">>,
    url |-> <<"u", "r", "l">>,
    link |-> <<"l", "i", "n", "k">>,
    snippet |-> <<"s", "n", "i", "p", "p", "e", "t">>,
    text |-> <<"t", "e", "x", "t">>,
    content |-> <<"c", "o", "n", "t", "e", "n", "t">>,
    summary |-> <<"s", "u", "m", "m", "a", "r", "y">>,
    description |-> <<"d", "e", "s", "c", "r", "i", "p", "t", "i", "o", "n">>,
    step |-> <<"s", "t", "e", "p">>,
    steps |-> <<"s", "t", "e", "p", "s">>,
    trace |-> <<"t", "r", "a", "c", "e">>,
    reasoning_steps |-> <<"r", "e", "a", "s", "o", "n", "i", "n", "g", "_", "s", "t", "e", "p", "s">>,
    requirements |-> <<"r", "e", "q", "u", "i", "r", "e", "m", "e", "n", "t", "s">>,
    criteria |-> <<"c", "r", "i", "t", "e", "r", "i", "a">>,
    rules |-> <<"r", "u", "l", "e", "s">>,
    label |-> <<"l", "a", "b", "e", "l">>,
    id |-> <<"i", "d">>,
    fulfilled |-> <<"f", "u", "l", "f", "i", "l", "l", "e", "d">>,
    met |-> <<"m", "e", "t">>,
    satisfied |-> <<"s", "a", "t", "i", "s", "f", "i", "e", "d">>,
    passed |-> <<"p", "a", "s", "s", "e", "d">>,
    resolution_rule_id |-> <<"r", "e", "s", "o", "l", "u", "t", "i", "o", "n", "_", "r", "u", "l", "e", "_", "i", "d">>,
    rule_id |-> <<"r", "u", "l", "e", "_", "i", "d">> ]

\* one key of a z.object: its validator, .optional(), .default([]) and, for
\* a nested z.object, the keys of that object
Field(k, type, optional, dflt, sub) ==
  [k |-> k, type |-> type, optional |-> optional, dflt |-> dflt, sub |-> sub]

promptResponseSchema ==
  << Field(Key.market_id, "string", TRUE, FALSE, <<>>),
     Field(Key.prompt_spec, "unknown", FALSE, FALSE, <<>>),
     Field(Key.tool_plan, "unknown", FALSE, FALSE, <<>>),
     Field(Key.metadata, "unknown", TRUE, FALSE, <<>>) >>

collectResponseSchema ==
  << Field(Key.evidence_bundles, "array", FALSE, FALSE, <<>>),
     Field(Key.collectors_used, "stringArray", TRUE, TRUE, <<>>),
     Field(Key.execution_logs, "array", TRUE, FALSE, <<>>),
     Field(Key.errors, "array", TRUE, TRUE, <<>>) >>

auditResponseSchema ==
  << Field(Key.reasoning_trace, "unknown", FALSE, FALSE, <<>>),
     Field(Key.errors, "array", TRUE, TRUE, <<>>) >>

judgeResponseSchema ==
  << Field(Key.verdict, "unknown", FALSE, FALSE, <<>>),
     Field(Key.outcome, "string", FALSE, FALSE, <<>>),
     Field(Key.confidence, "number", FALSE, FALSE, <<>>),
     Field(Key.errors, "array", TRUE, TRUE, <<>>) >>

rootsSchema ==
  << Field(Key.prompt_spec_hash, "string", FALSE, FALSE, <<>>),
     Field(Key.evidence_root, "string", FALSE, FALSE, <<>>),
     Field(Key.reasoning_root, "string", FALSE, FALSE, <<>>),
     Field(Key.por_root, "string", FALSE, FALSE, <<>>) >>

bundleResponseSchema ==
  << Field(Key.por_bundle, "unknown", FALSE, FALSE, <<>>),
     Field(Key.por_root, "string", FALSE, FALSE, <<>>),
     Field(Key.roots, "object", FALSE, FALSE, rootsSchema),
     Field(Key.errors, "array", TRUE, TRUE, <<>>) >>

capabilitiesResponseSchema ==
  << Field(Key.collectors, "array", TRUE, FALSE, <<>>),
     Field(Key.providers, "array", TRUE, FALSE, <<>>) >>

ParseOk(v) == [ok |-> TRUE, value |-> v, issue |-> <<>>]
\* the parse fails; issue is the key the first issue is about
ParseFail(key) == [ok |-> FALSE, value |-> JUndefined, issue |-> key]

RECURSIVE ParseObject(_, _, _), ParseField(_, _)
\* the validator of one key applied to the value found under it; a key
\* with z.unknown() accepts a missing value
ParseField(f, v) ==
  IF v.t = "undefined"
  THEN IF f.dflt THEN ParseOk(JArr(<<>>))
       ELSE IF f.optional \/ f.type = "unknown" THEN ParseOk(JUndefined)
       ELSE ParseFail(f.k)
  ELSE CASE f.type = "unknown" -> ParseOk(v)
         [] f.type = "string" -> IF v.t = "str" THEN ParseOk(v) ELSE ParseFail(f.k)
         [] f.type = "number" -> IF v.t = "num" THEN ParseOk(v) ELSE ParseFail(f.k)
         [] f.type = "array" -> IF v.t = "arr" THEN ParseOk(v) ELSE ParseFail(f.k)
         [] f.type = "stringArray" ->
              IF v.t = "arr" /\ \A i \in DOMAIN v.items : v.items[i].t = "str"
              THEN ParseOk(v) ELSE ParseFail(f.k)
         [] f.type = "object" ->
              LET r == ParseObject(f.sub, FALSE, v)
              IN IF r.ok THEN r ELSE ParseFail(f.k)

\* z.object(schema).parse(v), with .passthrough() as every response schema
\* is declared or with the default stripping of unknown keys as the nested
\* roots object is: the keys of the schema come first, in schema
\* order, then the other keys of v
ParseObject(schema, passthrough, v) ==
  IF v.t # "obj" THEN ParseFail(<<>>)
  ELSE LET parsed == [i \in DOMAIN schema |-> ParseField(schema[i], JGet(v, schema[i].k))]
           failed == {i \in DOMAIN schema : ~parsed[i].ok}
           known == [i \in DOMAIN schema |-> Entry(schema[i].k, parsed[i].value)]
           InSchema(e) == \E i \in DOMAIN schema : schema[i].k = e.k
           IsExtra(e) == ~InSchema(e)
       IN IF failed # {}
          THEN ParseFail(parsed[CHOOSE i \in failed : \A j \in failed : i <= j].issue)
          ELSE ParseOk(JObj(SelectSeq(known, IsDefinedEntry)
                            \o (IF passthrough THEN SelectSeq(v.entries, IsExtra) ELSE <<>>)))

\* the ZodError thrown by schema.parse
ZodError(issue) == Thrown(TRUE, "ZodError", issue, "zod")

(***************************************************************************)
(* extractData, pipeline.ts:24-29                                          *)
(***************************************************************************)
\* variant: the body is validated as it is
extractData_identity(raw) == raw

extractData(raw) ==
  IF IsObj(raw) /\ JHas(raw, KeyData) THEN JGet(raw, KeyData) ELSE raw

(***************************************************************************)
(* buildReport and its extraction helpers, report.ts                       *)
(***************************************************************************)

\* v[key] on any value: undefined unless v is an object with that key
Prop(v, key) == IF IsObj(v) THEN JGet(v, key) ELSE JUndefined

\* !!v
Truthy(v) ==
  CASE v.t \in {"undefined", "null"} -> FALSE
    [] v.t = "bool" -> v.b
    [] v.t = "num" -> v.n # 0
    [] v.t = "str" -> v.s # <<>>
    [] OTHER -> TRUE

\* typeof v === 'object' && v !== null
TypeofObject(v) == v.t \in {"obj", "arr"}

\* variant: only undefined falls through to the next candidate
Nullish_undefinedOnly(a, b) == IF a.t = "undefined" THEN b ELSE a

\* a ?? b
Nullish(a, b) == IF a.t \in {"undefined", "null"} THEN b ELSE a

RECURSIVE FirstDefined(_, _)
\* v[k1] ?? v[k2] ?? ...
FirstDefined(v, ks) ==
  IF Len(ks) = 1 THEN Prop(v, ks[1])
  ELSE Nullish(Prop(v, ks[1]), FirstDefined(v, Tail(ks)))

asOptionalString(val) == IF val.t = "str" THEN val ELSE JUndefined

\* variant: one item more is kept
SliceLimit_eleven == 10 + 1
\* items kept by .slice(0, 10)
SliceLimit == 10

Slice(s) == SubSeq(s, 1, IF Len(s) < SliceLimit THEN Len(s) ELSE SliceLimit)

RECURSIVE Flatten(_)
Flatten(ss) == IF ss = <<>> THEN <<>> ELSE Head(ss) \o Flatten(Tail(ss))

Highlight(title, url, snippet) ==
  JObj(<<Entry(Key.title, asOptionalString(title)),
         Entry(Key.source_url, asOptionalString(url)),
         Entry(Key.snippet, asOptionalString(snippet))>>)

\* the highlights one bundle contributes (report.ts:143-170)
BundleHighlights(b) ==
  IF ~TypeofObject(b) THEN <<>>
  ELSE LET items == FirstDefined(b, <<Key.items, Key.evidence_items, Key.results, Key.snippets>>)
           OfItem(i) ==
             IF ~TypeofObject(i) THEN <<>>
             ELSE <<Highlight(FirstDefined(i, <<Key.title, Key.headline, Key.name>>),
                              FirstDefined(i, <<Key.source_url, Key.url, Key.link>>),
                              FirstDefined(i, <<Key.snippet, Key.text, Key.content, Key.summary>>))>>
       IN IF items.t = "arr"
          THEN Flatten([j \in DOMAIN items.items |-> OfItem(items.items[j])])
          ELSE IF \E k \in {Key.title, Key.snippet, Key.source_url, Key.url, Key.text} : Truthy(Prop(b, k))
               THEN <<Highlight(FirstDefined(b, <<Key.title, Key.headline>>),
                                FirstDefined(b, <<Key.source_url, Key.url>>),
                                FirstDefined(b, <<Key.snippet, Key.text, Key.summary>>))>>
               ELSE <<>>

extractEvidenceHighlights(bundles) ==
  JArr(Slice(Flatten([j \in DOMAIN bundles.items |-> BundleHighlights(bundles.items[j])])))

\* the array branch of extractReasoningSummary (report.ts:179-189)
SummaryOfArray(steps) ==
  LET OfStep(step) ==
        IF ~TypeofObject(step) THEN <<>>
        ELSE LET desc == FirstDefined(step, <<Key.description, Key.summary, Key.step, Key.text>>)
             IN <<IF desc.t = "str" THEN desc ELSE JStr(JSON_stringify(step))>>
  IN Slice(Flatten([j \in DOMAIN steps |-> OfStep(steps[j])]))

extractReasoningSummary(trace_) ==
  JArr(IF ~Truthy(trace_) THEN <<>>
       ELSE IF trace_.t = "arr" THEN SummaryOfArray(trace_.items)
       ELSE IF trace_.t = "obj"
            THEN LET steps == FirstDefined(trace_, <<Key.steps, Key.trace, Key.reasoning_steps>>)
                     summary == FirstDefined(trace_, <<Key.summary, Key.text>>)
                 IN IF steps.t = "arr" THEN SummaryOfArray(steps.items)
                    ELSE IF summary.t = "str" THEN <<summary>>
                    ELSE <<>>
       ELSE IF trace_.t = "str" THEN <<trace_>>
       ELSE <<>>)

\* the labelled requirements of the verdict, each with its truthiness
\* (report.ts:213-235)
LabelledRequirements(judge) ==
  LET verdict == Prop(judge, Key.verdict)
      reqs == FirstDefined(verdict, <<Key.requirements, Key.criteria, Key.rules>>)
      OfReq(r) ==
        LET label == asOptionalString(FirstDefined(r, <<Key.description, Key.label, Key.name, Key.id>>))
        IN IF ~TypeofObject(r) \/ ~Truthy(label) THEN <<>>
           ELSE <<[label |-> label,
                   met |-> Truthy(FirstDefined(r, <<Key.fulfilled, Key.met, Key.satisfied, Key.passed>>))]>>
  IN IF ~Truthy(verdict) \/ ~TypeofObject(verdict) \/ reqs.t # "arr" THEN <<>>
     ELSE Flatten([j \in DOMAIN reqs.items |-> OfReq(reqs.items[j])])

\* variant: the requirements that are not met are left out
extractRequirements_unmetDropped(judge) ==
  LET labelled == LabelledRequirements(judge)
      IsMet(r) == r.met
      Labels(rs) == [j \in DOMAIN rs |-> rs[j].label]
  IN [fulfilled |-> Labels(SelectSeq(labelled, IsMet)),
      unfulfilled |-> <<>>]

extractRequirements(judge) ==
  LET labelled == LabelledRequirements(judge)
      IsMet(r) == r.met
      IsUnmet(r) == ~r.met
      Labels(rs) == [j \in DOMAIN rs |-> rs[j].label]
  IN [fulfilled |-> Labels(SelectSeq(labelled, IsMet)),
      unfulfilled |-> Labels(SelectSeq(labelled, IsUnmet))]

extractResolutionRuleId(judge) ==
  LET verdict == Prop(judge, Key.verdict)
  IN IF ~Truthy(verdict) \/ ~TypeofObject(verdict) THEN JUndefined
     ELSE asOptionalString(FirstDefined(verdict, <<Key.resolution_rule_id, Key.rule_id>>))

\* variant: the confidence of the report is a fixed number
buildReport_fixedConfidence(prompt, collect, audit, judge, bundle) ==
  LET reqs == extractRequirements(judge) IN
  [outcome |-> JGet(judge, Key.outcome),
   confidence |-> JNum(1),
   resolution_rule_id |-> extractResolutionRuleId(judge),
   evidence_highlights |-> extractEvidenceHighlights(JGet(collect, Key.evidence_bundles)),
   requirements_fulfilled |->
     IF Len(reqs.fulfilled) > 0 THEN JArr(reqs.fulfilled) ELSE JUndefined,
   requirements_unfulfilled |->
     IF Len(reqs.unfulfilled) > 0 THEN JArr(reqs.unfulfilled) ELSE JUndefined,
   reasoning_summary |-> extractReasoningSummary(JGet(audit, Key.reasoning_trace)),
   roots |-> JGet(bundle, Key.roots),
   raw |-> [prompt_response |-> prompt, collect_response |-> collect,
            audit_response |-> audit, judge_response |-> judge,
            bundle_response |-> bundle]]

\* report.ts:109-138
buildReport(prompt, collect, audit, judge, bundle) ==
  LET reqs == extractRequirements(judge) IN
  [outcome |-> JGet(judge, Key.outcome),
   confidence |-> JGet(judge, Key.confidence),
   resolution_rule_id |-> extractResolutionRuleId(judge),
   evidence_highlights |-> extractEvidenceHighlights(JGet(collect, Key.evidence_bundles)),
   requirements_fulfilled |->
     IF Len(reqs.fulfilled) > 0 THEN JArr(reqs.fulfilled) ELSE JUndefined,
   requirements_unfulfilled |->
     IF Len(reqs.unfulfilled) > 0 THEN JArr(reqs.unfulfilled) ELSE JUndefined,
   reasoning_summary |-> extractReasoningSummary(JGet(audit, Key.reasoning_trace)),
   roots |-> JGet(bundle, Key.roots),
   raw |-> [prompt_response |-> prompt, collect_response |-> collect,
            audit_response |-> audit, judge_response |-> judge,
            bundle_response |-> bundle]]

(***************************************************************************)
(* runPipeline, pipeline.ts:34-100                                         *)
(***************************************************************************)

\* PipelineOptions values: every optional field left out, and every
\* optional field given
Options ==
  [ default |->
        [query |-> <<"q", "?">>, code |-> CodePlain, collectors |-> JUndefined, strict_mode |-> JUndefined, include_raw_content |-> JUndefined],
    custom |->
        [query |-> <<"q", "?">>, code |-> CodePlain, collectors |-> JArr(<<JStr(<<"C", "o", "l", "l", "e", "c", "t", "o", "r", "X">>)>>), strict_mode |-> JBool(TRUE), include_raw_content |-> JBool(TRUE)] ]
PipelineOptions == {Options.default, Options.custom}

\* decoded bodies the gateway answers a step with: the response inside a
\* "data" wrapper, the response itself, and a body that fails validation

\* the paths of the five steps (pipeline.ts:44, 53, 64, 73, 83)
StepPaths ==
  << Path.Prompt,
     <<"/", "s", "t", "e", "p", "/", "c", "o", "l", "l", "e", "c", "t">>,
     <<"/", "s", "t", "e", "p", "/", "a", "u", "d", "i", "t">>,
     <<"/", "s", "t", "e", "p", "/", "j", "u", "d", "g", "e">>,
     <<"/", "s", "t", "e", "p", "/", "b", "u", "n", "d", "l", "e">> >>

Body ==
  [ prompt |->
      [ wrapped |->
            JObj(<<Entry(KeyData,
                     JObj(<<Entry(Key.market_id, JStr(<<"m", "1">>)),
                            Entry(Key.prompt_spec,
                              JObj(<<Entry(Key.id, JStr(<<"s", "1">>))>>)),
                            Entry(Key.tool_plan,
                              JObj(<<Entry(Key.id, JStr(<<"t", "1">>))>>)),
                            Entry(<<"n", "o", "t", "e">>, JStr(<<"n">>))>>))>>),
        flat |->
            JObj(<<Entry(Key.prompt_spec, JStr(<<"s", "2">>)),
                   Entry(Key.tool_plan, JStr(<<"t", "2">>))>>),
        invalid |->
            JObj(<<Entry(KeyData,
                     JObj(<<Entry(Key.market_id, JNum(5)),
                            Entry(Key.prompt_spec, JStr(<<"s", "3">>)),
                            Entry(Key.tool_plan, JStr(<<"t", "3">>))>>))>>) ],
    collect |->
      [ wrapped |->
            JObj(<<Entry(KeyData,
                     JObj(<<Entry(Key.evidence_bundles,
                              JArr(<<JObj(<<Entry(Key.items,
                                              JArr(<<JObj(<<Entry(Key.title, JStr(<<"a">>)),
                                                            Entry(Key.url, JStr(<<"u">>))>>)>>))>>)>>)),
                            Entry(Key.collectors_used,
                              JArr(<<JStr(<<"c">>)>>))>>))>>),
        flat |->
            JObj(<<Entry(Key.evidence_bundles, JArr(<<>>))>>),
        invalid |->
            JObj(<<Entry(Key.evidence_bundles, JStr(<<"e">>))>>) ],
    audit |->
      [ wrapped |->
            JObj(<<Entry(KeyData,
                     JObj(<<Entry(Key.reasoning_trace,
                              JObj(<<Entry(Key.steps,
                                       JArr(<<JObj(<<Entry(Key.description, JStr(<<"d">>))>>)>>))>>))>>))>>),
        flat |->
            JObj(<<Entry(Key.reasoning_trace, JStr(<<"r", "2">>)),
                   Entry(Key.errors, JArr(<<>>))>>),
        invalid |->
            JObj(<<Entry(Key.reasoning_trace, JStr(<<"r", "3">>)),
                   Entry(KeyData, JNull)>>) ],
    judge |->
      [ wrapped |->
            JObj(<<Entry(KeyData,
                     JObj(<<Entry(Key.verdict,
                              JObj(<<Entry(Key.rule_id, JStr(<<"R">>)),
                                     Entry(Key.requirements,
                                       JArr(<<JObj(<<Entry(Key.label, JStr(<<"q">>)),
                                                     Entry(Key.met, JBool(TRUE))>>),
                                              JObj(<<Entry(Key.label, JStr(<<"p">>))>>)>>))>>)),
                            Entry(Key.outcome, JStr(<<"Y", "E", "S">>)),
                            Entry(Key.confidence, JNum(1))>>))>>),
        flat |->
            JObj(<<Entry(Key.verdict, JStr(<<"v", "2">>)),
                   Entry(Key.outcome, JStr(<<"N", "O">>)),
                   Entry(Key.confidence, JNum(0))>>),
        invalid |->
            JObj(<<Entry(KeyData,
                     JObj(<<Entry(KeyData,
                              JObj(<<Entry(Key.verdict, JStr(<<"v", "3">>)),
                                     Entry(Key.outcome, JStr(<<"Y", "E", "S">>)),
                                     Entry(Key.confidence, JNum(1))>>))>>))>>) ],
    bundle |->
      [ wrapped |->
            JObj(<<Entry(KeyData,
                     JObj(<<Entry(Key.por_bundle, JStr(<<"b", "1">>)),
                            Entry(Key.por_root, JStr(<<"r", "1">>)),
                            Entry(Key.roots,
                              JObj(<<Entry(Key.prompt_spec_hash, JStr(<<"h", "1">>)),
                                     Entry(Key.evidence_root, JStr(<<"e", "1">>)),
                                     Entry(Key.reasoning_root, JStr(<<"g", "1">>)),
                                     Entry(Key.por_root, JStr(<<"r", "1">>)),
                                     Entry(<<"e", "x", "t", "r", "a">>, JStr(<<"x">>))>>))>>))>>),
        flat |->
            JObj(<<Entry(Key.por_bundle, JStr(<<"b", "2">>)),
                   Entry(Key.por_root, JStr(<<"r", "2">>)),
                   Entry(Key.roots,
                     JObj(<<Entry(Key.prompt_spec_hash, JStr(<<"h", "2">>)),
                            Entry(Key.evidence_root, JStr(<<"e", "2">>)),
                            Entry(Key.reasoning_root, JStr(<<"g", "2">>)),
                            Entry(Key.por_root, JStr(<<"r", "2">>))>>))>>),
        invalid |->
            JObj(<<Entry(Key.por_bundle, JStr(<<"b", "3">>)),
                   Entry(Key.por_root, JStr(<<"r", "3">>)),
                   Entry(Key.roots,
                     JObj(<<Entry(Key.prompt_spec_hash, JStr(<<"h", "3">>))>>))>>) ],
    capabilities |->
      [ wrapped |->
            JObj(<<Entry(KeyData,
                     JObj(<<Entry(Key.collectors,
                              JArr(<<JStr(<<"C", "o", "l", "l", "e", "c", "t", "o", "r", "X">>)>>)),
                            Entry(Key.providers, JArr(<<>>))>>))>>),
        flat |->
            JObj(<<Entry(Key.collectors, JArr(<<>>))>>),
        invalid |->
            JObj(<<Entry(Key.collectors, JStr(<<"C", "o", "l", "l", "e", "c", "t", "o", "r", "X">>))>>) ] ]

StepBodies(path) ==
  CASE path = StepPaths[1] -> {Body.prompt.wrapped, Body.prompt.flat, Body.prompt.invalid}
    [] path = StepPaths[2] -> {Body.collect.wrapped, Body.collect.flat, Body.collect.invalid}
    [] path = StepPaths[3] -> {Body.audit.wrapped, Body.audit.flat, Body.audit.invalid}
    [] path = StepPaths[4] -> {Body.judge.wrapped, Body.judge.flat, Body.judge.invalid}
    [] path = StepPaths[5] -> {Body.bundle.wrapped, Body.bundle.flat, Body.bundle.invalid}
    [] path = Path.Capabilities -> {Body.capabilities.wrapped, Body.capabilities.flat, Body.capabilities.invalid}
    [] OTHER -> {}

\* statuses, body texts and exceptions the transport answers a step with
Pipe ==
  [ statuses |-> {200, 400, 500},
    texts |-> {BodyText.Socket},
    exceptions |->
      { Thrown(TRUE, "TypeError", Msg.FetchFailed, "transport"),
        Thrown(TRUE, "Error", Msg.Boom, "transport"),
        AbortException },
    decodeExceptions |-> {Thrown(TRUE, "SyntaxError", Msg.JsonSyntax, "decode")} ]

\* number of steps of the pipeline
LastStep == 5

\* variant: audit is called before collect
StepPath_auditFirst(k) == StepPaths[CASE k = 2 -> 3 [] k = 3 -> 2 [] OTHER -> k]

\* the path of step k
StepPath(k) == StepPaths[k]

\* the schema step k parses its response with (pipeline.ts:48, 59, 68, 78, 89)
StepSchema(k) ==
  CASE k = 1 -> promptResponseSchema
    [] k = 2 -> collectResponseSchema
    [] k = 3 -> auditResponseSchema
    [] k = 4 -> judgeResponseSchema
    [] k = 5 -> bundleResponseSchema

\* variant: strict mode is on unless the caller turns it off
Defaults_strictOn ==
  [collectors |-> JArr(<<JStr(<<"C", "o", "l", "l", "e", "c", "t", "o", "r", "G", "e", "m", "i", "n", "i", "G", "r", "o", "u", "n", "d", "e", "d">>)>>),
   strict_mode |-> JBool(TRUE),
   include_raw_content |-> JBool(FALSE)]

\* the defaults of pipeline.ts:39-41
Defaults ==
  [collectors |-> JArr(<<JStr(<<"C", "o", "l", "l", "e", "c", "t", "o", "r", "G", "e", "m", "i", "n", "i", "G", "r", "o", "u", "n", "d", "e", "d">>)>>),
   strict_mode |-> JBool(FALSE),
   include_raw_content |-> JBool(FALSE)]

\* variant: the evidence sent to audit is empty
StepPayload_noEvidence(k, r) ==
  LET promptResponse == r.validated[1]
      collectResponse == r.validated[2]
      auditResponse == r.validated[3]
      judgeResponse == r.validated[4]
  IN CASE k = 1 ->
            JObj(<<Entry(Key.user_input, JStr(r.options.query)),
                   Entry(KeyStrictMode, r.strictMode)>>)
       [] k = 2 ->
            JObj(<<Entry(Key.prompt_spec, JGet(promptResponse, Key.prompt_spec)),
                   Entry(Key.tool_plan, JGet(promptResponse, Key.tool_plan)),
                   Entry(Key.collectors, r.collectors),
                   Entry(Key.include_raw_content, r.includeRaw)>>)
       [] k = 3 ->
            JObj(<<Entry(Key.prompt_spec, JGet(promptResponse, Key.prompt_spec)),
                   Entry(Key.evidence_bundles, JArr(<<>>))>>)
       [] k = 4 ->
            JObj(<<Entry(Key.prompt_spec, JGet(promptResponse, Key.prompt_spec)),
                   Entry(Key.evidence_bundles, JGet(collectResponse, Key.evidence_bundles)),
                   Entry(Key.reasoning_trace, JGet(auditResponse, Key.reasoning_trace))>>)
       [] k = 5 ->
            JObj(<<Entry(Key.prompt_spec, JGet(promptResponse, Key.prompt_spec)),
                   Entry(Key.evidence_bundles, JGet(collectResponse, Key.evidence_bundles)),
                   Entry(Key.reasoning_trace, JGet(auditResponse, Key.reasoning_trace)),
                   Entry(Key.verdict, JGet(judgeResponse, Key.verdict))>>)

\* the payload of step k, built from the options and the responses parsed
\* so far (pipeline.ts:44-47, 53-58, 64-67, 73-77, 83-88)
StepPayload(k, r) ==
  LET promptResponse == r.validated[1]
      collectResponse == r.validated[2]
      auditResponse == r.validated[3]
      judgeResponse == r.validated[4]
  IN CASE k = 1 ->
            JObj(<<Entry(Key.user_input, JStr(r.options.query)),
                   Entry(KeyStrictMode, r.strictMode)>>)
       [] k = 2 ->
            JObj(<<Entry(Key.prompt_spec, JGet(promptResponse, Key.prompt_spec)),
                   Entry(Key.tool_plan, JGet(promptResponse, Key.tool_plan)),
                   Entry(Key.collectors, r.collectors),
                   Entry(Key.include_raw_content, r.includeRaw)>>)
       [] k = 3 ->
            JObj(<<Entry(Key.prompt_spec, JGet(promptResponse, Key.prompt_spec)),
                   Entry(Key.evidence_bundles, JGet(collectResponse, Key.evidence_bundles))>>)
       [] k = 4 ->
            JObj(<<Entry(Key.prompt_spec, JGet(promptResponse, Key.prompt_spec)),
                   Entry(Key.evidence_bundles, JGet(collectResponse, Key.evidence_bundles)),
                   Entry(Key.reasoning_trace, JGet(auditResponse, Key.reasoning_trace))>>)
       [] k = 5 ->
            JObj(<<Entry(Key.prompt_spec, JGet(promptResponse, Key.prompt_spec)),
                   Entry(Key.evidence_bundles, JGet(collectResponse, Key.evidence_bundles)),
                   Entry(Key.reasoning_trace, JGet(auditResponse, Key.reasoning_trace)),
                   Entry(Key.verdict, JGet(judgeResponse, Key.verdict))>>)

\* runPipeline has not been invoked yet
RunReady == [pc |-> "ready", tally |-> FALSE]
\* the same, in a specification that keeps the tally of the transport
\* calls of the run
RunTallied == [pc |-> "ready", tally |-> TRUE]

\* the tally of the run r once its current call, which has ended, is counted
Tally(r) ==
  IF r.tally
  THEN r.sent + Len(SelectSeq(trace, LAMBDA e : e.ev = "fetch"))
  ELSE r.sent

NoOutcome == [kind |-> "none"]
\* the promise of runPipeline resolves with a report
Reported(report) == [kind |-> "report", report |-> report]
\* the promise of runPipeline rejects with err
Rejected(err) == [kind |-> "reject", error |-> err]

\* client.call(path, 'POST', payload) of step r.step up to its first await
IssueStep(c, r) ==
  LET a == [path |-> StepPath(r.step), method |-> "POST",
            payload |-> StepPayload(r.step, r)]
  IN /\ BeginCall(c, a)
     /\ run' = [r EXCEPT !.issued = Append(@, a)]

\* runPipeline(options) up to the first await: the client is constructed,
\* the defaults are applied, /step/prompt is called (pipeline.ts:38-47)
BeginRun(o) ==
  /\ run.pc = "ready"
  /\ code' = o.code
  /\ IssueStep(o.code,
               [pc |-> "awaiting",
                fn |-> "runPipeline",
                tally |-> run.tally,
                sent |-> 0,
                options |-> o,
                collectors |-> Nullish(o.collectors, Defaults.collectors),
                strictMode |-> Nullish(o.strict_mode, Defaults.strict_mode),
                includeRaw |-> Nullish(o.include_raw_content, Defaults.include_raw_content),
                step |-> 1,
                issued |-> <<>>,
                received |-> <<>>,
                validated |-> <<>>,
                outcome |-> NoOutcome])

\* a caller other than main invokes runPipeline(o)
RunPipeline(o) ==
  /\ BeginRun(o)
  /\ UNCHANGED <<redact, cli, other>>

\* variant: a response that fails validation is asked for again
StepResolves_retryInvalid ==
  /\ run.pc = "awaiting"
  /\ run.fn = "runPipeline"
  /\ pc = "done"
  /\ result.kind = "return"
  /\ LET raw == result.value
         parsed == ParseObject(StepSchema(run.step), TRUE, extractData(raw))
         r1 == [run EXCEPT !.received = Append(@, raw), !.sent = Tally(run)]
         r2 == [r1 EXCEPT !.validated = Append(@, parsed.value)]
     IN IF ~parsed.ok
        THEN /\ IssueStep(code, r1)
             /\ UNCHANGED code
        ELSE IF run.step < LastStep
        THEN /\ IssueStep(code, [r2 EXCEPT !.step = @ + 1])
             /\ UNCHANGED code
        ELSE /\ run' = [r2 EXCEPT !.pc = "done",
                                  !.outcome = Reported(buildReport(r2.validated[1],
                                    r2.validated[2], r2.validated[3],
                                    r2.validated[4], r2.validated[5]))]
             /\ UNCHANGED clientVars
  /\ UNCHANGED <<redact, cli, other>>

\* the call of the current step resolves: extractData, schema.parse, then
\* the call of the next step or, after /step/bundle, buildReport
\* (pipeline.ts:48-50, 59-61, 68-70, 78-80, 89-99)
StepResolves ==
  /\ run.pc = "awaiting"
  /\ run.fn = "runPipeline"
  /\ pc = "done"
  /\ result.kind = "return"
  /\ LET raw == result.value
         parsed == ParseObject(StepSchema(run.step), TRUE, extractData(raw))
         r1 == [run EXCEPT !.received = Append(@, raw), !.sent = Tally(run)]
         r2 == [r1 EXCEPT !.validated = Append(@, parsed.value)]
     IN IF ~parsed.ok
        THEN /\ run' = [r1 EXCEPT !.pc = "done",
                                  !.outcome = Rejected(ZodError(parsed.issue))]
             /\ UNCHANGED clientVars
        ELSE IF run.step < LastStep
        THEN /\ IssueStep(code, [r2 EXCEPT !.step = @ + 1])
             /\ UNCHANGED code
        ELSE /\ run' = [r2 EXCEPT !.pc = "done",
                                  !.outcome = Reported(buildReport(r2.validated[1],
                                    r2.validated[2], r2.validated[3],
                                    r2.validated[4], r2.validated[5]))]
             /\ UNCHANGED clientVars
  /\ UNCHANGED <<redact, cli, other>>

\* variant: the error of the call is wrapped in a new Error
StepRaises_wrapped ==
  /\ run.pc = "awaiting"
  /\ run.fn = "runPipeline"
  /\ pc = "done"
  /\ result.kind = "raise"
  /\ run' = [run EXCEPT !.pc = "done", !.sent = Tally(run),
                        !.outcome = Rejected(NewError(result.error.message))]
  /\ UNCHANGED <<clientVars, redact, cli, other>>

\* the call of the current step rejects: nothing in runPipeline catches,
\* so its promise rejects with the same value
StepRaises ==
  /\ run.pc = "awaiting"
  /\ run.fn = "runPipeline"
  /\ pc = "done"
  /\ result.kind = "raise"
  /\ run' = [run EXCEPT !.pc = "done", !.sent = Tally(run),
                        !.outcome = Rejected(result.error)]
  /\ UNCHANGED <<clientVars, redact, cli, other>>

(***************************************************************************)
(* getCapabilities, pipeline.ts:105-113                                    *)
(***************************************************************************)
\* the promise of getCapabilities resolves with the parsed value
Resolved(value) == [kind |-> "value", value |-> value]

\* getCapabilities(code) up to its await: the client is constructed and
\* /capabilities is called with method GET and an empty payload
BeginCapabilities(c) ==
  /\ run.pc = "ready"
  /\ code' = c
  /\ LET a == [path |-> Path.Capabilities, method |-> "GET", payload |-> JObj(<<>>)]
     IN /\ BeginCall(c, a)
        /\ run' = [pc |-> "awaiting", fn |-> "getCapabilities", tally |-> run.tally,
                   sent |-> 0, issued |-> <<a>>, received |-> <<>>,
                   validated |-> <<>>, outcome |-> NoOutcome]

\* a caller other than main invokes getCapabilities(c)
GetCapabilities(c) ==
  /\ BeginCapabilities(c)
  /\ UNCHANGED <<redact, cli, other>>

\* variant: the decoded body is returned as it is
CapabilitiesResolves_returnsRaw ==
  /\ run.pc = "awaiting"
  /\ run.fn = "getCapabilities"
  /\ pc = "done"
  /\ result.kind = "return"
  /\ LET raw == result.value
         parsed == ParseObject(capabilitiesResponseSchema, TRUE, extractData(raw))
         r1 == [run EXCEPT !.received = Append(@, raw), !.sent = Tally(run)]
     IN run' = IF parsed.ok
               THEN [r1 EXCEPT !.pc = "done",
                               !.validated = Append(@, parsed.value),
                               !.outcome = Resolved(raw)]
               ELSE [r1 EXCEPT !.pc = "done",
                               !.outcome = Rejected(ZodError(parsed.issue))]
  /\ UNCHANGED <<clientVars, redact, cli, other>>

\* the call resolves: extractData, capabilitiesResponseSchema.parse
CapabilitiesResolves ==
  /\ run.pc = "awaiting"
  /\ run.fn = "getCapabilities"
  /\ pc = "done"
  /\ result.kind = "return"
  /\ LET raw == result.value
         parsed == ParseObject(capabilitiesResponseSchema, TRUE, extractData(raw))
         r1 == [run EXCEPT !.received = Append(@, raw), !.sent = Tally(run)]
     IN run' = IF parsed.ok
               THEN [r1 EXCEPT !.pc = "done",
                               !.validated = Append(@, parsed.value),
                               !.outcome = Resolved(parsed.value)]
               ELSE [r1 EXCEPT !.pc = "done",
                               !.outcome = Rejected(ZodError(parsed.issue))]
  /\ UNCHANGED <<clientVars, redact, cli, other>>

\* the call rejects: the promise of getCapabilities rejects with the same
\* value
CapabilitiesRaises ==
  /\ run.pc = "awaiting"
  /\ run.fn = "getCapabilities"
  /\ pc = "done"
  /\ result.kind = "raise"
  /\ run' = [run EXCEPT !.pc = "done", !.sent = Tally(run),
                        !.outcome = Rejected(result.error)]
  /\ UNCHANGED <<clientVars, redact, cli, other>>

PipelineInit ==
  /\ code = <<>>
  /\ pc = "idle"
  /\ callsMade = 0
  /\ args = NoArgs
  /\ envelope = buildEnvelope(<<>>, NoArgs.path, NoArgs.method, NoArgs.payload)
  /\ attempt = 0
  /\ lastError = NoError
  /\ timer = "none"
  /\ response = 0
  /\ trace = <<>>
  /\ result = NoResult
  /\ run = RunReady
  /\ redact = NoRedact
  /\ cli = NoCli
  /\ other = NoOther

PipelineNext ==
  \/ \E o \in PipelineOptions : RunPipeline(o)
  \/ StepResolves
  \/ StepRaises
  \/ GetCapabilities(CodePlain)
  \/ CapabilitiesResolves
  \/ CapabilitiesRaises
  \/ SleepDone
  \/ TimeoutFires
  \/ \E s \in Pipe.statuses : FetchResolves(s)
  \/ \E e \in Pipe.exceptions : FetchRejects(e)
  \/ \E t \in Pipe.texts : TextSettles(TRUE, t)
  \/ \E d \in StepBodies(args.path) : JsonResolves(d)
  \/ \E e \in Pipe.decodeExceptions : JsonRejects(e)

PipelineSpec == PipelineInit /\ [][PipelineNext]_vars

\* the same runs, with the tally of their transport calls kept
TalliedInit ==
  /\ code = <<>>
  /\ pc = "idle"
  /\ callsMade = 0
  /\ args = NoArgs
  /\ envelope = buildEnvelope(<<>>, NoArgs.path, NoArgs.method, NoArgs.payload)
  /\ attempt = 0
  /\ lastError = NoError
  /\ timer = "none"
  /\ response = 0
  /\ trace = <<>>
  /\ result = NoResult
  /\ run = RunTallied
  /\ redact = NoRedact
  /\ cli = NoCli
  /\ other = NoOther

TalliedSpec == TalliedInit /\ [][PipelineNext]_vars

\* the steps that settle a pending promise of the transport, of sleepFn or
\* of the body, and the continuations of a caller whose call has settled
Settling ==
  \/ StepRaises
  \/ CapabilitiesResolves
  \/ CapabilitiesRaises
  \/ SleepDone
  \/ TimeoutFires
  \/ \E s \in Pipe.statuses : FetchResolves(s)
  \/ \E e \in Pipe.exceptions : FetchRejects(e)
  \/ \E t \in Pipe.texts : TextSettles(TRUE, t)
  \/ \E d \in StepBodies(args.path) : JsonResolves(d)
  \/ \E e \in Pipe.decodeExceptions : JsonRejects(e)

\* the guard of StepResolves: the call awaited by runPipeline has returned.
\* Every branch of StepResolves changes run, so this is when it is enabled.
StepReturned ==
  /\ run.pc = "awaiting"
  /\ run.fn = "runPipeline"
  /\ pc = "done"
  /\ result.kind = "return"

\* every pending promise of the transport, of sleepFn and of the client
\* settles, and every continuation that is ready runs; the last conjunct is
\* weak fairness of StepResolves with its enabling condition written out
FairPipelineSpec ==
  /\ PipelineSpec
  /\ WF_vars(Settling)
  /\ ([]<>~StepReturned \/ []<><<StepResolves>>_vars)

(***************************************************************************)
(* The command line, cli.ts:1-97                                           *)
(***************************************************************************)
\* the tokens main compares its arguments with (cli.ts:35, 47, 58) and the
\* flags it looks up with the "--" of getArg and hasFlag in front
Token ==
  [ help |-> <<"-", "-", "h", "e", "l", "p">>, h |-> <<"-", "h">>,
    capabilities |-> <<"c", "a", "p", "a", "b", "i", "l", "i", "t", "i", "e", "s">>, resolve |-> <<"r", "e", "s", "o", "l", "v", "e">>,
    code |-> <<"-", "-", "c", "o", "d", "e">>, query |-> <<"-", "-", "q", "u", "e", "r", "y">>, collectors |-> <<"-", "-", "c", "o", "l", "l", "e", "c", "t", "o", "r", "s">>,
    strict |-> <<"-", "-", "s", "t", "r", "i", "c", "t">>, includeRaw |-> <<"-", "-", "i", "n", "c", "l", "u", "d", "e", "-", "r", "a", "w">>, json |-> <<"-", "-", "j", "s", "o", "n">> ]

RECURSIVE indexOf(_, _, _)
\* args.indexOf(x) from position i on; 0 stands for the -1 of JavaScript
indexOf(args_, x, i) ==
  IF i > Len(args_) THEN 0
  ELSE IF args_[i] = x THEN i
  ELSE indexOf(args_, x, i + 1)

\* getArg(args, name), cli.ts:4-8
getArg(args_, flag) ==
  LET idx == indexOf(args_, flag, 1)
  IN IF idx = 0 \/ idx + 1 > Len(args_) THEN JUndefined
     ELSE JStr(args_[idx + 1])

\* hasFlag(args, name), cli.ts:10-12
hasFlag(args_, flag) == indexOf(args_, flag, 1) # 0

RECURSIVE split(_, _, _)
\* text.split(','): the pieces between the commas, cur being the piece read
\* so far
split(text, cur, i) ==
  IF i > Len(text) THEN <<JStr(cur)>>
  ELSE IF text[i] = "," THEN <<JStr(cur)>> \o split(text, <<>>, i + 1)
  ELSE split(text, cur \o <<text[i]>>, i + 1)

\* the options main passes to runPipeline (cli.ts:65-76)
CliOptions(args_) ==
  LET collectorsArg == getArg(args_, Token.collectors)
  IN [query |-> getArg(args_, Token.query).s,
      code |-> getArg(args_, Token.code).s,
      collectors |-> IF Truthy(collectorsArg)
                     THEN JArr(split(collectorsArg.s, <<>>, 1))
                     ELSE JUndefined,
      strict_mode |-> JBool(hasFlag(args_, Token.strict)),
      include_raw_content |-> JBool(hasFlag(args_, Token.includeRaw))]

\* process.argv.slice(2) of the invocations: no command, help, commands
\* with and without their required flags, a flag without its value, an
\* empty value, every option given, and a command main does not know
CliArgs ==
  { <<>>,
    <<Token.help>>,
    <<Token.h>>,
    <<Token.resolve>>,
    <<Token.resolve, Token.query, <<"q", "?">>>>,
    <<Token.resolve, Token.query, <<"q", "?">>, Token.code>>,
    <<Token.resolve, Token.code, <<>>, Token.query, <<"q", "?">>>>,
    <<Token.resolve, Token.code, CodePlain>>,
    <<Token.resolve, Token.code, CodePlain, Token.query>>,
    <<Token.resolve, Token.code, CodePlain, Token.query, <<"q", "?">>>>,
    <<Token.resolve, Token.query, <<"q", "?">>, Token.strict, Token.collectors,
      <<"a", ",", "b">>, Token.includeRaw, Token.json, Token.code, CodePlain>>,
    <<Token.capabilities>>,
    <<Token.capabilities, Token.code, CodePlain>>,
    <<<<"s", "t", "a", "t", "u", "s">>>>,
    <<<<"s", "t", "a", "t", "u", "s">>, Token.code, CodePlain>> }

CliReady == [pc |-> "ready", args |-> <<>>, exit |-> 0 - 1, out |-> "none"]

\* process.exit(n) after a line on stdout or stderr
Exit(args_, n, line) ==
  /\ cli' = [pc |-> "exited", args |-> args_, exit |-> n, out |-> line]
  /\ UNCHANGED <<clientVars, run>>

\* main() up to its first await or its process.exit (cli.ts:31-76, 92-94)
Main(args_) ==
  /\ cli.pc = "ready"
  /\ LET command == IF Len(args_) = 0 THEN JUndefined ELSE JStr(args_[1])
         codeArg == getArg(args_, Token.code)
         queryArg == getArg(args_, Token.query)
     IN IF ~Truthy(command) \/ command.s \in {Token.help, Token.h}
        THEN Exit(args_, 0, "usage")
        ELSE IF ~Truthy(codeArg)
        THEN Exit(args_, 1, "code is required")
        ELSE IF command.s = Token.capabilities
        THEN /\ BeginCapabilities(codeArg.s)
             /\ cli' = [cli EXCEPT !.pc = "awaiting", !.args = args_]
        ELSE IF command.s = Token.resolve
        THEN IF ~Truthy(queryArg)
             THEN Exit(args_, 1, "query is required")
             ELSE /\ BeginRun(CliOptions(args_))
                  /\ cli' = [cli EXCEPT !.pc = "awaiting", !.args = args_]
        ELSE Exit(args_, 1, "unknown command")
  /\ UNCHANGED <<redact, other>>

\* variant: the catch blocks print the error and return
MainSettles_catchReturns ==
  /\ cli.pc = "awaiting"
  /\ run.pc = "done"
  /\ cli' = [cli EXCEPT !.pc = "exited", !.exit = 0,
                        !.out = IF run.outcome.kind = "reject" THEN "error"
                                ELSE IF run.outcome.kind = "value" THEN "json"
                                ELSE IF hasFlag(cli.args, Token.json) THEN "json"
                                ELSE "report"]
  /\ UNCHANGED <<clientVars, run, redact, other>>

\* the promise main awaits settles: the result is printed and main returns,
\* so the process ends with code 0, or the catch block prints the error
\* and calls process.exit(1) (cli.ts:48-55, 77-90)
MainSettles ==
  /\ cli.pc = "awaiting"
  /\ run.pc = "done"
  /\ cli' = [cli EXCEPT !.pc = "exited",
                        !.exit = IF run.outcome.kind = "reject" THEN 1 ELSE 0,
                        !.out = IF run.outcome.kind = "reject" THEN "error"
                                ELSE IF run.outcome.kind = "value" THEN "json"
                                ELSE IF hasFlag(cli.args, Token.json) THEN "json"
                                ELSE "report"]
  /\ UNCHANGED <<clientVars, run, redact, other>>

CliInit ==
  /\ code = <<>>
  /\ pc = "idle"
  /\ callsMade = 0
  /\ args = NoArgs
  /\ envelope = buildEnvelope(<<>>, NoArgs.path, NoArgs.method, NoArgs.payload)
  /\ attempt = 0
  /\ lastError = NoError
  /\ timer = "none"
  /\ response = 0
  /\ trace = <<>>
  /\ result = NoResult
  /\ run = RunReady
  /\ redact = NoRedact
  /\ cli = CliReady
  /\ other = NoOther

CliNext ==
  \/ \E a \in CliArgs : Main(a)
  \/ MainSettles
  \/ StepResolves
  \/ StepRaises
  \/ CapabilitiesResolves
  \/ CapabilitiesRaises
  \/ SleepDone
  \/ TimeoutFires
  \/ \E s \in Pipe.statuses : FetchResolves(s)
  \/ \E e \in Pipe.exceptions : FetchRejects(e)
  \/ \E t \in Pipe.texts : TextSettles(TRUE, t)
  \/ \E d \in StepBodies(args.path) : JsonResolves(d)
  \/ \E e \in Pipe.decodeExceptions : JsonRejects(e)

CliSpec == CliInit /\ [][CliNext]_vars

(***************************************************************************)
(* Two activities in progress at once.  JavaScript runs one continuation   *)
(* at a time, so the activities interleave at their awaits: the state of   *)
(* the one that is not running is kept in other.  What is switched is what *)
(* the code keeps per invocation: the client made by runPipeline or        *)
(* getCapabilities (pipeline.ts:38, 106), the locals of call               *)
(* (client.ts:66-78) and the locals of runPipeline (pipeline.ts:39-99).    *)
(***************************************************************************)
\* the state of the activity that is running
Context ==
  [code |-> code, pc |-> pc, args |-> args, envelope |-> envelope,
   attempt |-> attempt, lastError |-> lastError, timer |-> timer,
   response |-> response, trace |-> trace, result |-> result, run |-> run]

\* an activity that has not started
Fresh ==
  [code |-> <<>>, pc |-> "idle", args |-> NoArgs,
   envelope |-> buildEnvelope(<<>>, NoArgs.path, NoArgs.method, NoArgs.payload),
   attempt |-> 0, lastError |-> NoError, timer |-> "none", response |-> 0,
   trace |-> <<>>, result |-> NoResult, run |-> RunReady]

\* variant: attempt and lastError are kept in one place for all calls
Switch_sharedCounters ==
  /\ other.pc # "none"
  /\ other' = Context
  /\ code' = other.code
  /\ pc' = other.pc
  /\ args' = other.args
  /\ envelope' = other.envelope
  /\ timer' = other.timer
  /\ response' = other.response
  /\ trace' = other.trace
  /\ result' = other.result
  /\ run' = other.run
  /\ UNCHANGED <<attempt, lastError, callsMade, redact, cli>>

\* the event loop runs a continuation of the other activity next
Switch ==
  /\ other.pc # "none"
  /\ other' = Context
  /\ code' = other.code
  /\ pc' = other.pc
  /\ args' = other.args
  /\ envelope' = other.envelope
  /\ attempt' = other.attempt
  /\ lastError' = other.lastError
  /\ timer' = other.timer
  /\ response' = other.response
  /\ trace' = other.trace
  /\ result' = other.result
  /\ run' = other.run
  /\ UNCHANGED <<callsMade, redact, cli>>

\* what the two activities are started with and what the transport answers
\* them with: a capabilities request has another credential than a run, so
\* two activities have the same credential or different ones
Conc ==
  [ codes |-> {<<"k", "2">>},
    options |-> {Options.default},
    statuses |-> {200, 500},
    exceptions |-> {Thrown(TRUE, "TypeError", Msg.FetchFailed, "transport")},
    texts |-> {BodyText.Socket},
    bodies |-> {Body.prompt.wrapped, Body.collect.wrapped, Body.audit.wrapped,
                Body.judge.wrapped, Body.bundle.wrapped, Body.capabilities.wrapped} ]

ConcInit ==
  /\ code = <<>>
  /\ pc = "idle"
  /\ callsMade = 0
  /\ args = NoArgs
  /\ envelope = buildEnvelope(<<>>, NoArgs.path, NoArgs.method, NoArgs.payload)
  /\ attempt = 0
  /\ lastError = NoError
  /\ timer = "none"
  /\ response = 0
  /\ trace = <<>>
  /\ result = NoResult
  /\ run = RunReady
  /\ redact = NoRedact
  /\ cli = NoCli
  /\ other = Fresh

ConcNext ==
  \/ Switch
  \/ \E o \in Conc.options : RunPipeline(o)
  \/ \E c \in Conc.codes : GetCapabilities(c)
  \/ StepResolves
  \/ StepRaises
  \/ CapabilitiesResolves
  \/ CapabilitiesRaises
  \/ SleepDone
  \/ \E s \in Conc.statuses : FetchResolves(s)
  \/ \E e \in Conc.exceptions : FetchRejects(e)
  \/ \E t \in Conc.texts : TextSettles(TRUE, t)
  \/ \E d \in StepBodies(args.path) \cap Conc.bodies : JsonResolves(d)

ConcSpec == ConcInit /\ [][ConcNext]_vars

(***************************************************************************)
(* buildReport applied on its own to the responses of the five steps       *)
(***************************************************************************)
\* an object literal with the entries whose value is given
Obj(entries) == JObj(SelectSeq(entries, IsDefinedEntry))

\* n objects numbered 1..n under key; with junk, each one follows a value
\* that is not an object
Entries(key, n, junk) ==
  IF junk
  THEN [i \in 1..(2 * n) |->
          IF i % 2 = 1 THEN (IF i % 4 = 1 THEN JNum(i) ELSE JNull)
          ELSE Obj(<<Entry(key, JStr(NumberToString(i \div 2)))>>)]
  ELSE [i \in 1..n |-> Obj(<<Entry(key, JStr(NumberToString(i)))>>)]

\* the values the gateway can put in the fields buildReport reads
ReportInputs ==
  LET Given == {JUndefined, JNull, JNum(5)}
      A(c) == {JUndefined, JNull, JNum(5), JStr(<<c>>)}
      B(c) == {JUndefined, JStr(<<c>>)}
      items ==
        {Obj(<<Entry(Key.title, a), Entry(Key.headline, b), Entry(Key.name, c),
               Entry(Key.url, JStr(<<"u">>))>>) : a \in A("t"), b \in A("h"), c \in A("n")}
        \cup
        {Obj(<<Entry(Key.source_url, a), Entry(Key.url, b), Entry(Key.link, c),
               Entry(Key.title, JStr(<<"t">>))>>) : a \in A("s"), b \in A("u"), c \in B("l")}
        \cup
        {Obj(<<Entry(Key.snippet, a), Entry(Key.text, b), Entry(Key.content, c),
               Entry(Key.summary, d), Entry(Key.title, JStr(<<"t">>))>>) :
           a \in A("s"), b \in B("x"), c \in B("c"), d \in B("m")}
      reqs ==
        { Obj(<<Entry(Key.description, JStr(<<"d">>)), Entry(Key.fulfilled, JBool(TRUE))>>),
          Obj(<<Entry(Key.label, JStr(<<"l">>)), Entry(Key.met, JBool(FALSE))>>),
          Obj(<<Entry(Key.name, JStr(<<"n">>)), Entry(Key.satisfied, JNum(1))>>),
          Obj(<<Entry(Key.id, JStr(<<"i">>))>>),
          Obj(<<Entry(Key.description, JNull), Entry(Key.label, JStr(<<"m">>)),
                Entry(Key.fulfilled, JNull), Entry(Key.passed, JBool(TRUE))>>),
          Obj(<<Entry(Key.label, JStr(<<"f">>)), Entry(Key.fulfilled, JBool(FALSE)),
                Entry(Key.met, JBool(TRUE))>>),
          Obj(<<Entry(Key.description, JStr(<<>>)), Entry(Key.met, JBool(TRUE))>>),
          Obj(<<Entry(Key.description, JNum(5)), Entry(Key.label, JStr(<<"x">>))>>),
          Obj(<<Entry(Key.met, JBool(TRUE))>>),
          JStr(<<"r">>) }
      reqLists == UNION {[1..k -> reqs] : k \in 0..3}
  IN [ bundles |->
         {JArr(<<Obj(<<Entry(k, JArr(Entries(Key.title, n, junk)))>>)>>) :
            k \in {Key.items, Key.evidence_items, Key.results, Key.snippets},
            n \in 0..MaxItems, junk \in BOOLEAN}
         \cup {JArr(Entries(Key.title, n, junk)) : n \in 0..MaxItems, junk \in BOOLEAN}
         \cup {JArr(<<Obj(<<Entry(Key.items, JArr(Entries(Key.title, n, FALSE)))>>),
                      Obj(<<Entry(Key.title, JStr(NumberToString(n + 1)))>>)>>) :
                 n \in 0..MaxItems}
         \cup {JArr(<<Obj(<<Entry(Key.items, JArr(<<i>>))>>)>>) : i \in items}
         \cup {JArr(<<i>>) : i \in items},
       traces |->
         {JArr(Entries(Key.description, n, junk)) : n \in 0..MaxItems, junk \in BOOLEAN}
         \cup {Obj(<<Entry(k, JArr(Entries(Key.text, n, FALSE)))>>) :
                 k \in {Key.steps, Key.trace, Key.reasoning_steps}, n \in 0..MaxItems}
         \cup {JArr(<<Obj(<<Entry(Key.description, a), Entry(Key.summary, b),
                            Entry(Key.step, c), Entry(Key.text, d)>>)>>) :
                 a \in A("d"), b \in B("m"), c \in B("p"), d \in B("x")}
         \cup {JUndefined, JNull, JNum(3), JStr(<<"w">>), JStr(<<>>),
               Obj(<<Entry(Key.summary, JStr(<<"m">>))>>),
               Obj(<<Entry(Key.text, JStr(<<"x">>))>>),
               Obj(<<Entry(Key.steps, JNum(1)), Entry(Key.summary, JNum(2)),
                     Entry(Key.text, JStr(<<"x">>))>>)},
       verdicts |->
         {Obj(<<Entry(Key.resolution_rule_id, a), Entry(Key.rule_id, b)>>) :
            a \in A("r"), b \in A("s")}
         \cup {Obj(<<Entry(Key.requirements, JArr(rs))>>) : rs \in reqLists}
         \cup {Obj(<<Entry(k, JArr(<<r>>))>>) : k \in {Key.criteria, Key.rules}, r \in reqs}
         \cup {Obj(<<Entry(Key.requirements, JNull), Entry(Key.criteria, JArr(<<r>>))>>) :
                 r \in reqs}
         \cup {JUndefined, JNull, JStr(<<"v">>), JArr(<<>>), Obj(<<>>)} ]

\* the five validated responses buildReport is called with
Responses(bundles, trace_, verdict) ==
  << Body.prompt.flat,
     Obj(<<Entry(Key.evidence_bundles, bundles)>>),
     Obj(<<Entry(Key.reasoning_trace, trace_)>>),
     Obj(<<Entry(Key.verdict, verdict), Entry(Key.outcome, JStr(<<"Y", "E", "S">>)),
           Entry(Key.confidence, JNum(1))>>),
     JGet(Body.bundle.wrapped, KeyData) >>

\* runPipeline has validated the response of /step/bundle (pipeline.ts:89-91)
ReportInit ==
  /\ code = CodePlain
  /\ pc = "idle"
  /\ callsMade = 0
  /\ args = NoArgs
  /\ envelope = buildEnvelope(<<>>, NoArgs.path, NoArgs.method, NoArgs.payload)
  /\ attempt = 0
  /\ lastError = NoError
  /\ timer = "none"
  /\ response = 0
  /\ trace = <<>>
  /\ result = NoResult
  /\ \E r \in {Responses(b, JUndefined, JUndefined) : b \in ReportInputs.bundles}
            \cup {Responses(JArr(<<>>), t, JUndefined) : t \in ReportInputs.traces}
            \cup {Responses(JArr(<<>>), JUndefined, v) : v \in ReportInputs.verdicts} :
       run = [pc |-> "building", fn |-> "buildReport", tally |-> FALSE,
              validated |-> r, outcome |-> NoOutcome]
  /\ redact = NoRedact
  /\ cli = NoCli
  /\ other = NoOther

\* return buildReport(prompt, collect, audit, judge, bundle), pipeline.ts:93-99
BuildReport ==
  /\ run.pc = "building"
  /\ run' = [run EXCEPT !.pc = "done",
                        !.outcome = Reported(buildReport(run.validated[1], run.validated[2],
                                      run.validated[3], run.validated[4], run.validated[5]))]
  /\ UNCHANGED <<clientVars, redact, cli, other>>

ReportNext == BuildReport

ReportSpec == ReportInit /\ [][ReportNext]_vars

(***************************************************************************)
(* Observations on the history of the running call                         *)
(***************************************************************************)
IsFetch(e) == e.ev = "fetch"
IsSleep(e) == e.ev = "sleep"
IsFetchOrSleep(e) == e.ev \in {"fetch", "sleep"}
IsSettle(e) == e.ev \in {"response", "reject"}

\* transport calls and suspends of the running call
FetchCount == Len(SelectSeq(trace, IsFetch))
SleepCount == Len(SelectSeq(trace, IsSleep))
\* how the transport calls of the running call settled, in order
Settles == SelectSeq(trace, IsSettle)

\* the classification of statuses as the specification words it
SuccessStatus(s) == s \in 200..299
TransientStatus(s) == s >= 500 \/ s = 429 \/ s = 408
FatalStatus(s) == ~SuccessStatus(s) /\ ~TransientStatus(s)

IsTransientResponse(e) == e.ev = "response" /\ TransientStatus(e.status)
IsFatalResponse(e) == e.ev = "response" /\ FatalStatus(e.status)
IsSuccessResponse(e) == e.ev = "response" /\ SuccessStatus(e.status)

\* nothing after position i of the history is a transport call or a suspend
NothingIssuedAfter(i) ==
  \A j \in (i + 1)..Len(trace) : ~IsFetchOrSleep(trace[j])

(***************************************************************************)
(* C1: one invocation of call issues at least 1 and at most 3 transport    *)
(* calls, whatever the transport outcomes are.                             *)
(***************************************************************************)
C1_TransportCallsBetweenOneAndThree ==
  /\ FetchCount <= 3
  /\ pc # "idle" => FetchCount >= 1

\* a call that ended after three transport calls
C1_Witness == pc = "done" /\ FetchCount = 3

(***************************************************************************)
(* C2: for a non-empty credential, every error raised by call has a        *)
(* message that does not contain the credential.                           *)
(***************************************************************************)
C2_RaisedErrorHidesCredential ==
  (pc = "done" /\ result.kind = "raise" /\ code # <<>>)
    => ~includes(result.error.message, code)

(***************************************************************************)
(* C3: a non-success status that is neither >=500 nor 429 nor 408 makes    *)
(* call raise on that attempt, whatever the body text: no transport call   *)
(* and no suspend follows; when it is the first response exactly one       *)
(* transport call is made.                                                 *)
(***************************************************************************)
C3_FatalStatusRaisesAtOnce ==
  \A i \in DOMAIN trace :
    IsFatalResponse(trace[i]) =>
      /\ NothingIssuedAfter(i)
      /\ pc \in {"text", "done"}
      /\ pc = "done" =>
           /\ result.kind = "raise"
           /\ startsWith(result.error.message,
                         Lit.GatewayReturned \o Lit.Space \o NumberToString(trace[i].status))
      /\ i = 2 => FetchCount = 1

\* a 4xx whose body names a network keyword ended the call after one
\* transport call
C3_Witness ==
  /\ pc = "done"
  /\ Len(trace) = 3
  /\ IsFatalResponse(trace[2])
  /\ trace[3].ev = "text" /\ trace[3].text = BodyText.Socket
  /\ result.kind = "raise"

(***************************************************************************)
(* C4: three consecutive transient statuses give exactly 3 transport calls *)
(* and then an error whose message contains the status of the third        *)
(* response; the call never returns.                                       *)
(***************************************************************************)
ThreeTransientResponses ==
  /\ Len(Settles) = 3
  /\ \A i \in 1..3 : IsTransientResponse(Settles[i])

C4_ThreeTransientsExhaust ==
  ThreeTransientResponses =>
    /\ FetchCount = 3
    /\ pc \in {"text", "done"}
    /\ pc = "done" =>
         /\ result.kind = "raise"
         /\ includes(result.error.message, NumberToString(Settles[3].status))

\* three transient statuses, the last one different from the first two
C4_Witness ==
  /\ pc = "done"
  /\ ThreeTransientResponses
  /\ Settles[1].status = 500 /\ Settles[2].status = 429 /\ Settles[3].status = 503

(***************************************************************************)
(* C5 as stated: k transient statuses (k in 0..2) followed by a success    *)
(* status give exactly k+1 transport calls and the call returns the        *)
(* decoded body of that response.                                          *)
(***************************************************************************)
\* the first k transport calls got transient statuses, the next a success
TransientsThenSuccess(k) ==
  /\ Len(Settles) >= k + 1
  /\ \A i \in 1..k : IsTransientResponse(Settles[i])
  /\ IsSuccessResponse(Settles[k + 1])

C5_Original ==
  \A k \in 0..2 :
    (TransientsThenSuccess(k) /\ pc = "done") =>
      /\ FetchCount = k + 1
      /\ result.kind = "return"

(***************************************************************************)
(* C5 amended: k transient statuses (k in 0..2) followed by a success      *)
(* status whose body decodes give exactly k+1 transport calls, and the     *)
(* call returns that decoded body unchanged, not unwrapped.                *)
(***************************************************************************)
\* the body of the response at position k+1 has been decoded
DecodedAfter(k) ==
  \E i \in DOMAIN trace :
    /\ trace[i].ev = "decode" /\ trace[i].ok
    /\ trace[i].attempt = Settles[k + 1].attempt

C5_TransientsThenDecodedSuccess ==
  \A k \in 0..2 :
    (TransientsThenSuccess(k) /\ DecodedAfter(k)) =>
      /\ FetchCount = k + 1
      /\ pc = "done"
      /\ result.kind = "return"
      /\ result.value = trace[Len(trace)].data
      /\ trace[Len(trace)].ev = "decode"

\* [500, 500, 200] with a body wrapped in a data field
C5_Witness ==
  /\ pc = "done"
  /\ TransientsThenSuccess(2)
  /\ Settles[1].status = 500 /\ Settles[2].status = 500 /\ Settles[3].status = 200
  /\ FetchCount = 3
  /\ result.kind = "return"
  /\ JHas(result.value, KeyData)

(***************************************************************************)
(* C6: a transient status (>=500, 429, 408) that arrives on attempt index  *)
(* 0 or 1 never ends the call: its body is read, the backoff of the next   *)
(* attempt is started and the next transport call is made.                 *)
(***************************************************************************)
C6_EarlyTransientIsRetried ==
  \A i \in DOMAIN trace :
    (IsTransientResponse(trace[i]) /\ trace[i].attempt \in {0, 1}) =>
      \/ pc = "text" /\ i = Len(trace)
      \/ /\ pc = "sleeping"
         /\ i + 2 = Len(trace)
         /\ trace[i + 2].ev = "sleep" /\ trace[i + 2].attempt = trace[i].attempt + 1
      \/ /\ i + 3 <= Len(trace)
         /\ trace[i + 2].ev = "sleep"
         /\ trace[i + 3].ev = "fetch" /\ trace[i + 3].attempt = trace[i].attempt + 1

\* a 429 on the first attempt and a 408 on the second, each followed by a
\* further transport call
C6_Witness ==
  /\ Len(Settles) >= 2
  /\ Settles[1].ev = "response" /\ Settles[1].status = 429
  /\ Settles[2].ev = "response" /\ Settles[2].status = 408
  /\ FetchCount = 3

(***************************************************************************)
(* C7: every transport exception recognized as network-class is recorded   *)
(* as the last error and, on attempt index 0 or 1, is followed by another  *)
(* attempt; one such failure followed by a success response gives exactly  *)
(* 2 transport calls and the success body.                                 *)
(***************************************************************************)
IsNetworkReject(e) == e.ev = "reject" /\ isNetworkError(e.err)

C7_NetworkFailureIsRetried ==
  /\ \A i \in DOMAIN trace :
       (IsNetworkReject(trace[i]) /\ trace[i].attempt \in {0, 1}) =>
         /\ i + 1 <= Len(trace)
         /\ trace[i + 1].ev = "sleep"
         /\ lastError # NoError
         /\ pc # "done" \/ FetchCount > trace[i].attempt + 1
  /\ (/\ pc = "done"
      /\ Len(Settles) >= 2
      /\ IsNetworkReject(Settles[1])
      /\ IsSuccessResponse(Settles[2]))
       => (FetchCount = 2 /\ result.kind = "return")

(***************************************************************************)
(* C8: a transport exception that is not recognized as network-class,      *)
(* a thrown value that is not an Error included, ends the call on that     *)
(* attempt: the very same value is raised, and no transport call and no    *)
(* suspend follows.                                                        *)
(***************************************************************************)
\* a rejection of fetchFn or of response.json()
IsException(e) == e.ev = "reject" \/ (e.ev = "decode" /\ ~e.ok)

C8_UnrecognizedExceptionPropagates ==
  \A i \in DOMAIN trace :
    (IsException(trace[i]) /\ ~isNetworkError(trace[i].err)) =>
      /\ i = Len(trace)
      /\ pc = "done"
      /\ result = Raised(trace[i].err)
      /\ result.error.origin # "client"

\* an Error that carries the credential and a thrown string have both been
\* seen to end a call; the state shown is the thrown string on a retry
C8_Witness ==
  /\ pc = "done"
  /\ trace[Len(trace)].ev = "reject"
  /\ ~trace[Len(trace)].err.isError
  /\ trace[Len(trace)].attempt = 1
  /\ result.error = trace[Len(trace)].err

(***************************************************************************)
(* C9: a response with a success status is never followed by another       *)
(* transport attempt (nor by a suspend) within the same call.              *)
(***************************************************************************)
C9_SuccessStatusEndsCall ==
  \A i \in DOMAIN trace :
    IsSuccessResponse(trace[i]) => NothingIssuedAfter(i)

(***************************************************************************)
(* C10: within one call a suspend happens exactly once before each         *)
(* transport attempt after the first and at no other time: transport       *)
(* calls and suspends alternate, starting and ending with a transport      *)
(* call, so suspends = transport calls - 1 when the call ends.             *)
(***************************************************************************)
\* the transport calls and suspends of the running call, in order
Issued == SelectSeq(trace, IsFetchOrSleep)

C10_SuspendsAlternateWithAttempts ==
  /\ \A i \in DOMAIN Issued :
       /\ (i % 2 = 1) => (Issued[i].ev = "fetch" /\ Issued[i].attempt = (i - 1) \div 2)
       /\ (i % 2 = 0) => (Issued[i].ev = "sleep" /\ Issued[i].attempt = i \div 2)
  /\ pc = "sleeping" <=> (Len(Issued) > 0 /\ Issued[Len(Issued)].ev = "sleep")
  /\ pc = "done" => SleepCount = FetchCount - 1
  /\ pc \in {"fetching", "text", "json"} => SleepCount = FetchCount - 1

\* a call that ended after three attempts and two suspends
C10_Witness ==
  /\ pc = "done"
  /\ FetchCount = 3
  /\ SleepCount = 2

(***************************************************************************)
(* C11 as stated: the backoff is 1000 ms before attempt index 1 and        *)
(* 2000 ms before attempt index 2, at most 3000 ms per call.               *)
(***************************************************************************)
RECURSIVE TotalSleep(_)
\* sum of the delays requested by the suspends of a history
TotalSleep(tr) ==
  IF tr = <<>> THEN 0
  ELSE (IF Head(tr).ev = "sleep" THEN Head(tr).ms ELSE 0) + TotalSleep(Tail(tr))

C11_Original ==
  /\ \A i \in DOMAIN trace :
       trace[i].ev = "sleep" =>
         /\ trace[i].attempt = 1 => trace[i].ms = 1000
         /\ trace[i].attempt = 2 => trace[i].ms = 2000
  /\ TotalSleep(trace) <= 3000

(***************************************************************************)
(* C11 amended: the backoff is 2000 ms before attempt index 1 and 4000 ms  *)
(* before attempt index 2, so a call that uses all three attempts adds     *)
(* 6000 ms and no call adds more.                                          *)
(***************************************************************************)
C11_BackoffDelays ==
  /\ \A i \in DOMAIN trace :
       trace[i].ev = "sleep" =>
         /\ trace[i].attempt \in {1, 2}
         /\ trace[i].attempt = 1 => trace[i].ms = 2000
         /\ trace[i].attempt = 2 => trace[i].ms = 4000
  /\ TotalSleep(trace) <= 6000
  /\ FetchCount = 3 => TotalSleep(trace) = 6000

\* a call that used all three attempts and slept 6000 ms in all
C11_Witness ==
  /\ pc = "done"
  /\ FetchCount = 3
  /\ TotalSleep(trace) = 6000

(***************************************************************************)
(* C12: for a non-empty credential c, redactCode(t, c) is t with every     *)
(* left-to-right non-overlapping literal occurrence of c replaced by       *)
(* "[REDACTED]"; pattern metacharacters in c match only themselves.        *)
(***************************************************************************)
RECURSIVE LiteralReplace(_, _, _)
\* t from position i on, with the literal occurrences of c replaced
LiteralReplace(t, c, i) ==
  IF i > Len(t) THEN <<>>
  ELSE IF OccursAt(t, c, i)
       THEN <<"[", "R", "E", "D", "A", "C", "T", "E", "D", "]">>
            \o LiteralReplace(t, c, i + Len(c))
       ELSE <<t[i]>> \o LiteralReplace(t, c, i + 1)

C12_RedactReplacesLiteralOccurrences ==
  (redact.phase = "done" /\ redact.code # <<>>) =>
    redact.out = LiteralReplace(redact.text, redact.code, 1)

\* the credential "a." in "aba.": only the literal occurrence is replaced,
\* "ab" stays although a wildcard dot would match it
C12_Witness ==
  /\ redact.phase = "done"
  /\ redact.code = <<"a", ".">>
  /\ redact.text = <<"a", "b", "a", ".">>
  /\ redact.out = <<"a", "b", "[", "R", "E", "D", "A", "C", "T", "E", "D", "]">>

(***************************************************************************)
(* C13: redactCode(t, c) is t itself whenever c is empty or c does not     *)
(* occur in t; an empty credential matches nothing.                        *)
(***************************************************************************)
C13_RedactLeavesTextWithoutCredential ==
  (redact.phase = "done" /\ (redact.code = <<>> \/ ~includes(redact.text, redact.code)))
    => redact.out = redact.text

\* an empty credential applied to a text that is not empty
C13_Witness ==
  /\ redact.phase = "done"
  /\ redact.code = <<>>
  /\ Len(redact.text) = 2
  /\ redact.out = redact.text

(***************************************************************************)
(* Claims about runPipeline and getCapabilities, stated on the record of   *)
(* the run: the logical calls issued, the decoded bodies received and the  *)
(* responses that passed validation                                        *)
(***************************************************************************)
\* runPipeline has been invoked
InRun == run.pc \in {"awaiting", "done"} /\ run.fn = "runPipeline"

\* the order of the steps
StepOrder ==
  << <<"/", "s", "t", "e", "p", "/", "p", "r", "o", "m", "p", "t">>,
     <<"/", "s", "t", "e", "p", "/", "c", "o", "l", "l", "e", "c", "t">>,
     <<"/", "s", "t", "e", "p", "/", "a", "u", "d", "i", "t">>,
     <<"/", "s", "t", "e", "p", "/", "j", "u", "d", "g", "e">>,
     <<"/", "s", "t", "e", "p", "/", "b", "u", "n", "d", "l", "e">> >>

\* transport calls of the running call that have not settled yet
InFlight == FetchCount - Len(Settles)

(***************************************************************************)
(* C14: the logical calls of one runPipeline run are issued in the order   *)
(* /step/prompt, /step/collect, /step/audit, /step/judge, /step/bundle,    *)
(* each at most once; the call of step k+1 is issued only when the         *)
(* response of step k has been received and validated; at most one         *)
(* transport call is in flight at any time.                                *)
(***************************************************************************)
C14_StepsInOrderOneAtATime ==
  InRun =>
    /\ Len(run.issued) <= Len(StepOrder)
    /\ \A i \in DOMAIN run.issued : run.issued[i].path = StepOrder[i]
    /\ Len(run.received) >= Len(run.issued) - 1
    /\ Len(run.validated) >= Len(run.issued) - 1
    /\ InFlight \in {0, 1}
    /\ pc # "done" => args = run.issued[Len(run.issued)]

\* all five steps have been called and the report is returned
C14_Witness ==
  /\ InRun
  /\ run.pc = "done"
  /\ run.outcome.kind = "report"
  /\ Len(run.issued) = 5
  /\ callsMade = 5

(***************************************************************************)
(* C15: when the call of a step raises, runPipeline rejects with that very *)
(* error, no call of a later step is issued afterwards and no report is    *)
(* returned; a report is returned only when all five steps have been       *)
(* called and their responses validated.                                   *)
(***************************************************************************)
C15_StepErrorEndsRun ==
  [][ /\ (InRun /\ run.pc = "awaiting" /\ pc = "done" /\ result.kind = "raise") =>
           /\ run'.pc = "done"
           /\ run'.outcome = Rejected(result.error)
           /\ run'.issued = run.issued
           /\ callsMade' = callsMade
           /\ trace' = trace
      /\ (InRun /\ run.pc = "done") => UNCHANGED vars
      /\ (run'.pc = "done" /\ run'.fn = "runPipeline" /\ run'.outcome.kind = "report") =>
           /\ Len(run'.issued) = 5
           /\ Len(run'.validated) = 5
           /\ result.kind = "return"
    ]_vars

\* the call of /step/audit has raised after two retries and the run has
\* rejected with its error
C15_Witness ==
  /\ InRun
  /\ run.pc = "done"
  /\ run.step = 3
  /\ Len(run.issued) = 3
  /\ result.kind = "raise"
  /\ FetchCount = 3
  /\ run.outcome = Rejected(result.error)

(***************************************************************************)
(* C16: when the decoded body of a step's success response does not have   *)
(* the shape of that step, runPipeline rejects at once with the validation *)
(* error: neither the same step nor a later step is called.                *)
(***************************************************************************)
\* the bodies that do not have the shape of their step
InvalidBodies ==
  {Body.prompt.invalid, Body.collect.invalid, Body.audit.invalid, Body.judge.invalid, Body.bundle.invalid}

C16_InvalidShapeEndsRun ==
  [][ (InRun /\ run.pc = "awaiting" /\ pc = "done" /\ result.kind = "return"
         /\ result.value \in InvalidBodies) =>
        /\ run'.pc = "done"
        /\ run'.outcome.kind = "reject"
        /\ run'.outcome.error.name = "ZodError"
        /\ run'.issued = run.issued
        /\ callsMade' = callsMade
        /\ trace' = trace
    ]_vars

\* /step/judge answered with a body of the wrong shape and the run
\* rejected with the validation error after four calls
C16_Witness ==
  /\ InRun
  /\ run.pc = "done"
  /\ run.step = 4
  /\ result.value = Body.judge.invalid
  /\ run.outcome.kind = "reject"
  /\ run.outcome.error.name = "ZodError"
  /\ callsMade = 4

(***************************************************************************)
(* C17: in every step and in getCapabilities the value validated is the    *)
(* value of the field "data" when the decoded body is an object with a     *)
(* field "data", one level deep only, and the decoded body itself          *)
(* otherwise; a body of the right shape without a "data" field passes      *)
(* validation in every step.                                               *)
(***************************************************************************)
\* the value the claim says is validated
Subject(raw) == IF raw.t = "obj" /\ JHas(raw, KeyData) THEN JGet(raw, KeyData) ELSE raw

\* the schema the i-th response of the run is validated with
SchemaOf(i) ==
  IF run.fn = "getCapabilities" THEN capabilitiesResponseSchema ELSE StepSchema(i)

FlatBodies ==
  {Body.prompt.flat, Body.collect.flat, Body.audit.flat, Body.judge.flat, Body.bundle.flat, Body.capabilities.flat}

C17_ValidationAppliesToDataField ==
  run.pc \in {"awaiting", "done"} =>
    \A i \in DOMAIN run.received :
      LET expected == ParseObject(SchemaOf(i), TRUE, Subject(run.received[i]))
      IN /\ expected.ok <=> i <= Len(run.validated)
         /\ expected.ok => run.validated[i] = expected.value
         /\ run.received[i] \in FlatBodies => expected.ok
         /\ run.received[i] = Body.judge.invalid => ~expected.ok

\* a run that returned its report from wrapped and unwrapped bodies
C17_Witness ==
  /\ InRun
  /\ run.outcome.kind = "report"
  /\ run.received = <<Body.prompt.wrapped, Body.collect.flat, Body.audit.wrapped, Body.judge.flat, Body.bundle.flat>>

(***************************************************************************)
(* C18: the payload of each step is built from the caller's options and    *)
(* the validated responses of the earlier steps: collect carries the       *)
(* prompt_spec and tool_plan of prompt, audit the prompt_spec and the      *)
(* evidence_bundles of collect, judge also the reasoning_trace of audit,   *)
(* bundle also the verdict of judge; steps 2 to 5 all send the prompt_spec *)
(* of step 1.                                                              *)
(***************************************************************************)
\* the keys of a payload, in order
PayloadKeys(payload) == [i \in DOMAIN payload.entries |-> payload.entries[i].k]

C18_PayloadsCarryEarlierOutputs ==
  InRun =>
    \A i \in DOMAIN run.issued :
      LET payload == run.issued[i].payload
          Sent(key) == JGet(payload, key)
          From(step, key) == JGet(run.validated[step], key)
      IN /\ i = 1 =>
              /\ PayloadKeys(payload) = <<Key.user_input, KeyStrictMode>>
              /\ Sent(Key.user_input) = JStr(run.options.query)
         /\ i >= 2 => Sent(Key.prompt_spec) = From(1, Key.prompt_spec)
         /\ i = 2 =>
              /\ PayloadKeys(payload) =
                   <<Key.prompt_spec, Key.tool_plan, Key.collectors, Key.include_raw_content>>
              /\ Sent(Key.tool_plan) = From(1, Key.tool_plan)
         /\ i >= 3 => Sent(Key.evidence_bundles) = From(2, Key.evidence_bundles)
         /\ i = 3 => PayloadKeys(payload) = <<Key.prompt_spec, Key.evidence_bundles>>
         /\ i >= 4 => Sent(Key.reasoning_trace) = From(3, Key.reasoning_trace)
         /\ i = 4 =>
              PayloadKeys(payload) = <<Key.prompt_spec, Key.evidence_bundles, Key.reasoning_trace>>
         /\ i = 5 =>
              /\ PayloadKeys(payload) =
                   <<Key.prompt_spec, Key.evidence_bundles, Key.reasoning_trace, Key.verdict>>
              /\ Sent(Key.verdict) = From(4, Key.verdict)
         /\ i = Len(run.issued) /\ pc # "done" =>
              envelope = buildEnvelope(run.options.code, StepOrder[i], "POST", payload)

\* /step/bundle has been called with the outputs of four wrapped responses
C18_Witness ==
  /\ InRun
  /\ Len(run.issued) = 5
  /\ run.received = <<Body.prompt.wrapped, Body.collect.wrapped, Body.audit.wrapped, Body.judge.wrapped>>
  /\ JGet(run.issued[5].payload, Key.evidence_bundles) # JArr(<<>>)
  /\ JGet(run.issued[5].payload, Key.verdict).t = "obj"

(***************************************************************************)
(* C19: options the caller leaves out are sent as strict_mode = false in   *)
(* the payload of prompt and as collectors = ["<<"C", "o", "l", "l", "e", "c", "t", "o", "r", "G", "e", "m", "i", "n", "i", "G", "r", "o", "u", "n", "d", "e", "d">>"],  *)
(* include_raw_content = false in the payload of collect; options the      *)
(* caller gives are sent as given.                                         *)
(***************************************************************************)
\* the option as the claim says it is sent
SentOption(given, default) == IF given.t = "undefined" THEN default ELSE given

C19_DefaultsAndGivenOptions ==
  InRun =>
    /\ JGet(run.issued[1].payload, KeyStrictMode) =
         SentOption(run.options.strict_mode, JBool(FALSE))
    /\ Len(run.issued) >= 2 =>
         /\ JGet(run.issued[2].payload, Key.collectors) =
              SentOption(run.options.collectors, JArr(<<JStr(<<"C", "o", "l", "l", "e", "c", "t", "o", "r", "G", "e", "m", "i", "n", "i", "G", "r", "o", "u", "n", "d", "e", "d">>)>>))
         /\ JGet(run.issued[2].payload, Key.include_raw_content) =
              SentOption(run.options.include_raw_content, JBool(FALSE))

\* /step/collect has been called in a run whose options give no collectors,
\* no strict_mode and no include_raw_content
C19_Witness ==
  /\ InRun
  /\ run.options = Options.default
  /\ Len(run.issued) >= 2
  /\ JGet(run.issued[1].payload, KeyStrictMode) = JBool(FALSE)
  /\ JGet(run.issued[2].payload, Key.collectors).items[1].s = <<"C", "o", "l", "l", "e", "c", "t", "o", "r", "G", "e", "m", "i", "n", "i", "G", "r", "o", "u", "n", "d", "e", "d">>

(***************************************************************************)
(* C20: the outcome and the confidence of a returned report are those of   *)
(* the validated judge response, and its roots are the roots of the        *)
(* validated bundle response.                                              *)
(***************************************************************************)
C20_ReportCopiesJudgeAndBundle ==
  (InRun /\ run.outcome.kind = "report") =>
    /\ run.outcome.report.outcome = JGet(run.validated[4], Key.outcome)
    /\ run.outcome.report.confidence = JGet(run.validated[4], Key.confidence)
    /\ run.outcome.report.roots = JGet(run.validated[5], Key.roots)
    /\ run.outcome.report.outcome.t = "str"
    /\ run.outcome.report.confidence.t = "num"
    /\ run.outcome.report.roots.t = "obj"

\* a report built from the unwrapped judge response, of confidence 0
C20_Witness ==
  /\ InRun
  /\ run.outcome.kind = "report"
  /\ run.received[4] = Body.judge.flat
  /\ run.outcome.report.confidence = JNum(0)
  /\ run.received[5] = Body.bundle.wrapped

(***************************************************************************)
(* C21: every transport call of a call, on every attempt and whatever the  *)
(* logical method is, is a POST to the gateway URL with the header         *)
(* Content-Type: application/json and the envelope {code, post_data, path, *)
(* method} as body, where code is the credential of the client and         *)
(* post_data the serialized payload; all attempts of a call send the same  *)
(* envelope.                                                               *)
(***************************************************************************)
C21_EveryTransportCallIsPostOfEnvelope ==
  /\ \A i \in DOMAIN trace :
       IsFetch(trace[i]) =>
         /\ trace[i].url = "https://interface.cournot.ai/play/polymarket/ai_data"
         /\ trace[i].method = "POST"
         /\ trace[i].contentType = "application/json"
         /\ DOMAIN trace[i].body = {"code", "post_data", "path", "method"}
         /\ trace[i].body.code = code
         /\ trace[i].body.path = args.path
         /\ trace[i].body.method = args.method
         /\ trace[i].body.post_data = JSON_stringify(args.payload)
         /\ trace[i].body = trace[1].body
  /\ (trace # <<>> /\ args.path = Path.Prompt) =>
       trace[1].body.post_data = <<"{", "\"", "s", "t", "r", "i", "c", "t", "_", "m", "o", "d", "e", "\"", ":", "f", "a", "l", "s", "e", "}">>
  /\ (trace # <<>> /\ args.path = Path.Capabilities) =>
       /\ trace[1].body.method = "GET"
       /\ trace[1].body.post_data = <<"{", "}">>

\* the third transport call of a call whose logical method is GET
C21_Witness ==
  /\ FetchCount = 3
  /\ args.method = "GET"
  /\ code = CodePlain
  /\ trace[Len(trace)].ev = "fetch"

(***************************************************************************)
(* C22: when the timeout of an attempt fires while its transport call is   *)
(* in flight, the transport call is aborted and the attempt counts as a    *)
(* network-class failure: on attempt index 0 or 1 the next attempt is      *)
(* prepared, on attempt index 2 the call raises the network error.         *)
(***************************************************************************)
C22_TimeoutIsRetriedAsNetworkFailure ==
  \A i \in DOMAIN trace :
    trace[i].ev = "timeout" =>
      LET a == trace[i].attempt IN
      /\ trace[i - 1].ev = "fetch" /\ trace[i - 1].attempt = a
      /\ \/ i = Len(trace) /\ pc = "fetching" /\ timer = "fired"
         \/ /\ i < Len(trace)
            /\ trace[i + 1].ev = "reject"
            /\ trace[i + 1].err.name = "AbortError"
            /\ a < 2 =>
                 /\ i + 2 <= Len(trace)
                 /\ trace[i + 2].ev = "sleep" /\ trace[i + 2].attempt = a + 1
            /\ a = 2 =>
                 /\ i + 1 = Len(trace)
                 /\ pc = "done"
                 /\ result.kind = "raise"
                 /\ startsWith(result.error.message, Lit.NetworkErrorCalling)
                 /\ result.error.message =
                      redactCode(Lit.NetworkErrorCalling \o args.path \o Lit.ColonSpace
                                   \o trace[i + 1].err.message, code)

\* the timeout fired on the first and on the third attempt, and the call
\* raised
C22_Witness ==
  /\ pc = "done"
  /\ result.kind = "raise"
  /\ Len(trace) >= 3
  /\ trace[2].ev = "timeout"
  /\ trace[Len(trace) - 1].ev = "timeout" /\ trace[Len(trace) - 1].attempt = 2

(***************************************************************************)
(* C26: the suspend requested before attempt index a, a >= 1, lasts        *)
(* min(1000 * 2^a, 10000) milliseconds, and no suspend of a call lasts     *)
(* more than 10000 ms.                                                     *)
(***************************************************************************)
\* the delay the claim states
StatedDelay(a) == IF 1000 * (2 ^ a) <= 10000 THEN 1000 * (2 ^ a) ELSE 10000

\* attempt indices on which the delay computation is compared
DelayIndices == 1..6

C26_BackoffFormula ==
  /\ \A i \in DOMAIN trace :
       IsSleep(trace[i]) =>
         /\ trace[i].attempt >= 1
         /\ trace[i].ms = StatedDelay(trace[i].attempt)
         /\ trace[i].ms <= 10000
  /\ \A a \in DelayIndices : Backoff(a) = StatedDelay(a) /\ Backoff(a) <= 10000

\* the call is suspended for 4000 ms before attempt index 2
C26_Witness ==
  /\ pc = "sleeping"
  /\ attempt = 2
  /\ trace[Len(trace)] = SleepEvent(2, 4000)

(***************************************************************************)
(* C27: when three attempts of a call have failed with retry-eligible      *)
(* failures, transient statuses and network-class exceptions in any mix,   *)
(* the error raised is the one of the third attempt: it names the status   *)
(* of the third response when that was a transient status, and it is the   *)
(* network error of the third exception when that was a network-class      *)
(* exception.                                                              *)
(***************************************************************************)
\* the call ended on its third attempt with the event e
ExhaustedWith(e) ==
  /\ pc = "done"
  /\ FetchCount = 3
  /\ e = trace[Len(trace)]
  /\ e.attempt = 2

C28_GenericErrorIsNeverRaised ==
  /\ (pc = "done" /\ attempt = MAX_RETRIES) =>
       /\ lastError # NoError
       /\ result = Raised(lastError)
  /\ result.kind = "raise" =>
       ~(result.error.origin = "client"
         /\ startsWith(result.error.message, Lit.FailedAfter))

\* the loop ended after a network-class failure of the third attempt
C28_Witness ==
  /\ pc = "done"
  /\ attempt = MAX_RETRIES
  /\ trace[Len(trace)].ev = "reject"
  /\ lastError.origin = "client"
  /\ result.error = lastError

(***************************************************************************)
(* C23: getCapabilities issues exactly one logical call, with path         *)
(* "/capabilities", logical method "GET" and an empty object as payload,   *)
(* sent as a POST like every call; it returns the unwrapped and validated  *)
(* body, and a failure of the call is the failure of getCapabilities.      *)
(***************************************************************************)
InCapabilities == run.pc \in {"awaiting", "done"} /\ run.fn = "getCapabilities"

C23_CapabilitiesIsOneGetCall ==
  InCapabilities =>
    /\ callsMade = 1
    /\ Len(run.issued) = 1
    /\ args.path = <<"/", "c", "a", "p", "a", "b", "i", "l", "i", "t", "i", "e", "s">>
    /\ args.method = "GET"
    /\ args.payload = JObj(<<>>)
    /\ \A i \in DOMAIN trace :
         IsFetch(trace[i]) =>
           /\ trace[i].method = "POST"
           /\ trace[i].body.path = args.path
           /\ trace[i].body.method = "GET"
           /\ trace[i].body.post_data = <<"{", "}">>
    /\ run.pc = "done" =>
         /\ result.kind = "raise" => run.outcome = Rejected(result.error)
         /\ result.kind = "return" => run.outcome.kind \in {"value", "reject"}
         /\ run.outcome.kind = "value" =>
              /\ result.kind = "return"
              /\ run.outcome.value =
                   ParseObject(capabilitiesResponseSchema, TRUE, Subject(result.value)).value
              /\ result.value = Body.capabilities.wrapped =>
                   run.outcome.value = JGet(Body.capabilities.wrapped, KeyData)
              /\ result.value = Body.capabilities.flat =>
                   run.outcome.value = Body.capabilities.flat

\* getCapabilities returned the listing found inside the "data" wrapper,
\* after one retry
C23_Witness ==
  /\ InCapabilities
  /\ run.pc = "done"
  /\ run.outcome.kind = "value"
  /\ result.value = Body.capabilities.wrapped
  /\ run.outcome.value = JGet(Body.capabilities.wrapped, KeyData)
  /\ FetchCount = 2

(***************************************************************************)
(* C29: the attempt counter and the last error belong to one logical call: *)
(* every step starts with attempt index 0 and no last error whatever the   *)
(* earlier steps used up, and makes at most 3 transport calls; a run makes *)
(* at most 15 transport calls, and between 5 and 15 when it returns a      *)
(* report.                                                                 *)
(***************************************************************************)
\* transport calls of the run so far
TransportCalls == run.sent + (IF run.pc = "awaiting" THEN FetchCount ELSE 0)

C29_CountersArePerCall ==
  InRun =>
    /\ FetchCount \in 1..3
    /\ Len(trace) = 1 => (attempt = 0 /\ lastError = NoError)
    /\ pc # "done" => attempt = trace[Len(trace)].attempt
    /\ TransportCalls >= Len(run.issued)
    /\ TransportCalls <= 3 * Len(run.issued)
    /\ TransportCalls <= 15
    /\ run.outcome.kind = "report" => TransportCalls \in 5..15

\* a report returned after every step needed its three attempts
C29_Witness ==
  /\ InRun
  /\ run.outcome.kind = "report"
  /\ TransportCalls = 15

(***************************************************************************)
(* C30: when every transport call and every suspend completes, every       *)
(* invocation of call returns or raises and every runPipeline run returns  *)
(* a report or rejects.                                                    *)
(***************************************************************************)
C30_CallsAndRunsTerminate ==
  /\ (pc \notin {"idle", "done"}) ~> (pc = "done" /\ result.kind \in {"return", "raise"})
  /\ (run.pc = "awaiting") ~> (run.pc = "done" /\ run.outcome.kind \in {"report", "value", "reject"})

\* a run that rejected in its last step after the call used all its attempts
C30_Witness ==
  /\ InRun
  /\ run.pc = "done"
  /\ run.step = 5
  /\ run.outcome.kind = "reject"
  /\ pc = "done"
  /\ attempt = MAX_RETRIES

(***************************************************************************)
(* C24: once a command is given, the command line exits with 0 when the    *)
(* command succeeds and with 1 on every error (no value for --code, no     *)
(* value for --query of resolve, a rejected run or capabilities request,   *)
(* a command it does not know); without a value for --code, or for         *)
(* --query of resolve, it exits with 1 and no gateway call was started.    *)
(***************************************************************************)
CommandGiven(a) == Len(a) > 0 /\ a[1] \notin {Token.help, Token.h}

HasValue(a, flag) == \E i \in 1..(Len(a) - 1) : a[i] = flag /\ a[i + 1] # <<>>

MissingRequired(a) ==
  \/ ~HasValue(a, Token.code)
  \/ a[1] = Token.resolve /\ ~HasValue(a, Token.query)

NoGatewayCall == pc = "idle" /\ trace = <<>> /\ callsMade = 0 /\ run = RunReady

C24_ExitCodes ==
  /\ cli.pc = "awaiting" =>
       /\ CommandGiven(cli.args)
       /\ ~MissingRequired(cli.args)
       /\ cli.args[1] \in {Token.resolve, Token.capabilities}
  /\ cli.pc = "exited" =>
       LET a == cli.args
           succeeded == run.pc = "done" /\ run.outcome.kind \in {"report", "value"}
           failed == run.pc = "done" /\ run.outcome.kind = "reject"
           unknown == a[1] \notin {Token.resolve, Token.capabilities}
       IN /\ cli.exit \in {0, 1}
          /\ ~CommandGiven(a) => cli.exit = 0 /\ NoGatewayCall
          /\ CommandGiven(a) =>
               /\ cli.exit = 0 <=> succeeded
               /\ cli.exit = 1 <=> (MissingRequired(a) \/ unknown \/ failed)
               /\ MissingRequired(a) => cli.exit = 1 /\ NoGatewayCall
               /\ unknown => NoGatewayCall

\* resolve with --code and no --query has exited
C24_Witness ==
  /\ cli.pc = "exited"
  /\ cli.exit = 1
  /\ cli.args[1] = Token.resolve
  /\ HasValue(cli.args, Token.code)
  /\ ~HasValue(cli.args, Token.query)
  /\ NoGatewayCall

(***************************************************************************)
(* C25: with two activities (pipeline runs or capabilities requests, with  *)
(* the same or different credentials) interleaved in every possible way,   *)
(* each call's attempt count, recorded last error, suspends, envelope and  *)
(* result are those computed from the outcomes of its own transport calls  *)
(* alone.                                                                  *)
(***************************************************************************)
ReplayStart == [attempt |-> 0, lastError |-> NoError, status |-> 0, result |-> NoResult]

\* `continue` with err recorded, replayed
ReplayRetry(st, err) ==
  [st EXCEPT !.attempt = @ + 1,
             !.lastError = err,
             !.result = IF st.attempt + 1 < MAX_RETRIES THEN @ ELSE Raised(err)]

\* the catch block, replayed for the activity x
ReplayCatch(x, st, err) ==
  IF CatchRetries(err)
  THEN ReplayRetry(st, NewError(NetworkErrorMessage(x.args.path, err, x.code)))
  ELSE [st EXCEPT !.result = Raised(err)]

RECURSIVE Replay(_, _, _)
\* attempt, lastError and result of the activity x after the outcomes its
\* own history records from position i on
Replay(x, i, st) ==
  IF i > Len(x.trace) THEN st
  ELSE LET e == x.trace[i]
           next ==
             CASE e.ev = "response" -> [st EXCEPT !.status = e.status]
               [] e.ev = "text" ->
                    LET err == NewError(GatewayReturnedMessage(st.status, x.args.path,
                                          redactCode(e.text, x.code)))
                    IN IF isTransientError(st.status)
                       THEN ReplayRetry(st, err)
                       ELSE ReplayCatch(x, st, err)
               [] e.ev = "reject" -> ReplayCatch(x, st, e.err)
               [] e.ev = "decode" ->
                    IF e.ok THEN [st EXCEPT !.result = Returned(e.data)]
                    ELSE ReplayCatch(x, st, e.err)
               [] OTHER -> st
       IN Replay(x, i + 1, next)

SuspendsOf(x) == SelectSeq(x.trace, LAMBDA e : e.ev = "sleep")

OnItsOwn(x) ==
  x.pc # "idle" =>
    LET r == Replay(x, 1, ReplayStart)
    IN /\ x.attempt = r.attempt
       /\ x.lastError = r.lastError
       /\ x.result = r.result
       /\ (x.pc = "done") = (r.result # NoResult)
       /\ x.envelope.code = x.code
       /\ x.envelope.path = x.args.path
       /\ \A i \in 1..Len(x.trace) :
            x.trace[i].ev = "fetch" => x.trace[i].body = x.envelope
       /\ SuspendsOf(x) = [k \in 1..(IF r.attempt < MAX_RETRIES THEN r.attempt
                                      ELSE MAX_RETRIES - 1) |-> SleepEvent(k, Backoff(k))]
       /\ x.run.fn = "runPipeline" =>
            /\ x.run.options.code = x.code
            /\ x.args.path = StepPaths[x.run.step]
            /\ Len(x.run.issued) = x.run.step

C25_ConcurrentCallsAreIndependent ==
  /\ other.pc # "none"
  /\ OnItsOwn(Context)
  /\ OnItsOwn(other)

\* a run and a capabilities request with different credentials, each in
\* the middle of a call, at different attempts
C25_Witness ==
  /\ run.pc = "awaiting"
  /\ other.run.pc = "awaiting"
  /\ run.fn = "runPipeline"
  /\ other.run.fn = "getCapabilities"
  /\ code # other.code
  /\ pc = "fetching"
  /\ attempt = 2
  /\ other.pc = "sleeping"
  /\ other.attempt = 1
  /\ run.step = 3

(***************************************************************************)
(* Observations on buildReport applied on its own                          *)
(***************************************************************************)
Built == run.pc = "done" /\ run.fn = "buildReport" /\ run.outcome.kind = "report"

GivenBundles == JGet(run.validated[2], Key.evidence_bundles).items
GivenTrace == JGet(run.validated[3], Key.reasoning_trace)
GivenVerdict == JGet(run.validated[4], Key.verdict)

ObjectsIn(seq) == SelectSeq(seq, LAMBDA v : v.t = "obj")

AtMostTen(n) == IF n < 10 THEN n ELSE 10

\* the list a bundle keeps its evidence items in, if it has one
ItemListOf(b) ==
  IF b.t = "obj" /\ \E k \in {Key.items, Key.evidence_items, Key.results, Key.snippets} :
                      JGet(b, k).t = "arr"
  THEN LET k == CHOOSE k \in {Key.items, Key.evidence_items, Key.results, Key.snippets} :
                  JGet(b, k).t = "arr"
       IN ObjectsIn(JGet(b, k).items)
  ELSE IF b.t = "obj" THEN <<b>> ELSE <<>>

RECURSIVE EvidenceCount(_)
\* number of evidence items received in a list of bundles
EvidenceCount(bs) ==
  IF bs = <<>> THEN 0 ELSE Len(ItemListOf(Head(bs))) + EvidenceCount(Tail(bs))

\* the reasoning steps received, when they come as a list
GivenSteps ==
  IF GivenTrace.t = "arr" THEN GivenTrace.items
  ELSE IF GivenTrace.t = "obj"
          /\ \E k \in {Key.steps, Key.trace, Key.reasoning_steps} : JGet(GivenTrace, k).t = "arr"
       THEN JGet(GivenTrace, CHOOSE k \in {Key.steps, Key.trace, Key.reasoning_steps} :
                               JGet(GivenTrace, k).t = "arr").items
       ELSE <<>>

(***************************************************************************)
(* C31: buildReport returns at most 10 evidence highlights and at most 10  *)
(* reasoning-summary entries; they are the first 10 in input order,        *)
(* however many evidence items or reasoning steps it received.             *)
(***************************************************************************)
C31_FirstTenInInputOrder ==
  Built =>
    LET hs == run.outcome.report.evidence_highlights.items
        rs == run.outcome.report.reasoning_summary.items
    IN /\ Len(hs) = AtMostTen(EvidenceCount(GivenBundles))
       /\ Len(hs) > 1 =>
            \A k \in 1..Len(hs) : JGet(hs[k], Key.title) = JStr(NumberToString(k))
       /\ Len(rs) <= 10
       /\ GivenSteps # <<>> => Len(rs) = AtMostTen(Len(ObjectsIn(GivenSteps)))
       /\ Len(rs) > 1 => \A k \in 1..Len(rs) : rs[k] = JStr(NumberToString(k))

\* twelve evidence items among values that are not objects: ten are kept
C31_Witness ==
  /\ Built
  /\ EvidenceCount(GivenBundles) = 12
  /\ Len(GivenBundles) = 24
  /\ Len(run.outcome.report.evidence_highlights.items) = 10

(***************************************************************************)
(* C32: the requirements of the verdict and the two requirement fields     *)
(***************************************************************************)
\* the first of the keys whose value in r is neither undefined nor null
GivenUnder(r, keys) ==
  LET given == {i \in DOMAIN keys : JGet(r, keys[i]).t \notin {"undefined", "null"}}
  IN IF given = {} THEN JUndefined
     ELSE JGet(r, keys[CHOOSE i \in given : \A j \in given : i <= j])

\* the list of requirements of the verdict received
GivenRequirements ==
  IF GivenVerdict.t # "obj" THEN <<>>
  ELSE LET reqs == GivenUnder(GivenVerdict, <<Key.requirements, Key.criteria, Key.rules>>)
       IN IF reqs.t = "arr" THEN reqs.items ELSE <<>>

LabelKeys == <<Key.description, Key.label, Key.name, Key.id>>
MetKeys == <<Key.fulfilled, Key.met, Key.satisfied, Key.passed>>

HasStringLabel(r) == r.t = "obj" /\ \E i \in DOMAIN LabelKeys : JGet(r, LabelKeys[i]).t = "str"

HasUsableLabel(r) ==
  /\ r.t = "obj"
  /\ GivenUnder(r, LabelKeys).t = "str"
  /\ GivenUnder(r, LabelKeys).s # <<>>

IsMet(r) == Truthy(GivenUnder(r, MetKeys))

\* what a requirement field holds: the labels, or undefined when there are none
FieldOf(rs) ==
  IF rs = <<>> THEN JUndefined
  ELSE JArr([j \in DOMAIN rs |-> GivenUnder(rs[j], LabelKeys)])

\* C32 as stated: every requirement with a string label under one of the
\* label keys is in exactly one of the two fields, fulfilled iff its flag
\* is truthy, in input order; an empty field is undefined
C32_Original ==
  Built =>
    /\ run.outcome.report.requirements_fulfilled =
         FieldOf(SelectSeq(GivenRequirements, LAMBDA r : HasStringLabel(r) /\ IsMet(r)))
    /\ run.outcome.report.requirements_unfulfilled =
         FieldOf(SelectSeq(GivenRequirements, LAMBDA r : HasStringLabel(r) /\ ~IsMet(r)))

\* C32, amended: a requirement is placed when the first of description,
\* label, name, id that is neither undefined nor null is a non-empty
\* string, which is its label; it is then in exactly one of the two fields,
\* fulfilled iff the first of fulfilled, met, satisfied, passed that is
\* neither undefined nor null is truthy, in input order; an empty field is
\* undefined, not an empty list
C32_LabelledRequirementsArePartitioned ==
  Built =>
    /\ run.outcome.report.requirements_fulfilled =
         FieldOf(SelectSeq(GivenRequirements, LAMBDA r : HasUsableLabel(r) /\ IsMet(r)))
    /\ run.outcome.report.requirements_unfulfilled =
         FieldOf(SelectSeq(GivenRequirements, LAMBDA r : HasUsableLabel(r) /\ ~IsMet(r)))
    /\ run.outcome.report.requirements_fulfilled # JArr(<<>>)
    /\ run.outcome.report.requirements_unfulfilled # JArr(<<>>)

\* three requirements, one with an empty label and a true flag: the other
\* two are the fulfilled ones and nothing is unfulfilled
C32_Witness ==
  /\ Built
  /\ Len(GivenRequirements) = 3
  /\ \E i \in 1..3 : /\ GivenRequirements[i].t = "obj"
                      /\ JGet(GivenRequirements[i], Key.description) = JStr(<<>>)
  /\ run.outcome.report.requirements_fulfilled = JArr(<<JStr(<<"d">>), JStr(<<"n">>)>>)
  /\ run.outcome.report.requirements_unfulfilled = JUndefined

(***************************************************************************)
(* C33: fields read under fallback key names                               *)
(***************************************************************************)
\* the value under the first of the keys that r has
PresentUnder(r, keys) ==
  LET present == {i \in DOMAIN keys : JHas(r, keys[i])}
  IN IF present = {} THEN JUndefined
     ELSE JGet(r, keys[CHOOSE i \in present : \A j \in present : i <= j])

StringOrUndefined(v) == IF v.t = "str" THEN v ELSE JUndefined

HasList(b) ==
  /\ b.t = "obj"
  /\ \E k \in {Key.items, Key.evidence_items, Key.results, Key.snippets} : JGet(b, k).t = "arr"

\* the candidate keys of the three highlight fields, for an evidence item
\* of a list and for a bundle taken as one item
HighlightKeys(listed) ==
  IF listed
  THEN [title |-> <<Key.title, Key.headline, Key.name>>,
        source_url |-> <<Key.source_url, Key.url, Key.link>>,
        snippet |-> <<Key.snippet, Key.text, Key.content, Key.summary>>]
  ELSE [title |-> <<Key.title, Key.headline>>,
        source_url |-> <<Key.source_url, Key.url>>,
        snippet |-> <<Key.snippet, Key.text, Key.summary>>]

RuleIdKeys == <<Key.resolution_rule_id, Key.rule_id>>

\* the fields of the report are read from the one bundle and the verdict
\* received as Lookup reads them
ReadWith(Lookup(_, _)) ==
  /\ Len(GivenBundles) = 1 /\ GivenBundles[1].t = "obj" =>
       LET b == GivenBundles[1]
           hs == run.outcome.report.evidence_highlights.items
           from == ItemListOf(b)
           keys == HighlightKeys(HasList(b))
       IN \A k \in 1..Len(hs) :
            /\ JGet(hs[k], Key.title) = StringOrUndefined(Lookup(from[k], keys.title))
            /\ JGet(hs[k], Key.source_url) = StringOrUndefined(Lookup(from[k], keys.source_url))
            /\ JGet(hs[k], Key.snippet) = StringOrUndefined(Lookup(from[k], keys.snippet))
  /\ GivenVerdict.t = "obj" =>
       run.outcome.report.resolution_rule_id =
         StringOrUndefined(Lookup(GivenVerdict, RuleIdKeys))

\* C33 as stated: each field is the value under the first candidate key
\* that is present on the object
C33_Original == Built => ReadWith(PresentUnder)

\* C33, amended: each field is read under the first candidate key, in the
\* listed order, whose value is neither undefined nor null, and is that
\* value when it is a string and undefined otherwise
C33_FirstGivenCandidateIsTaken == Built => ReadWith(GivenUnder)

\* an evidence item with a null title and a headline: the headline is taken
C33_Witness ==
  /\ Built
  /\ Len(GivenBundles) = 1
  /\ HasList(GivenBundles[1])
  /\ Len(ItemListOf(GivenBundles[1])) = 1
  /\ JGet(ItemListOf(GivenBundles[1])[1], Key.title) = JNull
  /\ JGet(ItemListOf(GivenBundles[1])[1], Key.headline) = JStr(<<"h">>)
  /\ JGet(run.outcome.report.evidence_highlights.items[1], Key.title) = JStr(<<"h">>)

(***************************************************************************)
(* C34: the redacted text is free of the credential, and redacting is      *)
(* idempotent                                                              *)
(***************************************************************************)
Redacted == redact.phase = "done" /\ redact.code # <<>>

\* the credential has no bracket and is not a part of the word in the marker
ClearOfMarker(c) ==
  /\ \A i \in 1..Len(c) : c[i] \notin {"[", "]"}
  /\ ~includes(<<"R", "E", "D", "A", "C", "T", "E", "D">>, c)

CredentialFree ==
  /\ ~includes(redact.out, redact.code)
  /\ redactCode(redact.out, redact.code) = redact.out

\* C34 as stated: for every non-empty credential and every text the
\* redacted text does not contain the credential, and redacting it again
\* changes nothing
C34_Original == Redacted => CredentialFree

\* C34, amended: for every non-empty credential that contains neither "["
\* nor "]" and does not occur in "REDACTED", and for every text, the
\* redacted text does not contain the credential, and redacting it again
\* changes nothing
C34_RedactedTextIsFreeOfCredential ==
  (Redacted /\ ClearOfMarker(redact.code)) => CredentialFree

\* overlapping occurrences of the credential "aa" in "aaaa": both pairs
\* are replaced and none is left
C34_Witness ==
  /\ Redacted
  /\ redact.code = <<"a", "a">>
  /\ redact.text = <<"a", "a", "a", "a">>
  /\ Len(redact.out) = 20
  /\ CredentialFree

(***************************************************************************)
(* C35: the timer of an attempt is armed only while the transport call of  *)
(* that attempt is pending and is disarmed however that call settles, so   *)
(* it never fires for another attempt or after the call has ended.         *)
(***************************************************************************)
C35_TimerLivesWithItsTransportCall ==
  /\ timer # "none" =>
       /\ pc = "fetching"
       /\ trace[Len(trace)].ev \in {"fetch", "timeout"}
       /\ trace[Len(trace)].attempt = attempt
  /\ pc # "fetching" => timer = "none"
  /\ \A i \in 1..Len(trace) :
       trace[i].ev = "timeout" =>
         /\ i > 1
         /\ trace[i - 1].ev = "fetch"
         /\ trace[i - 1].attempt = trace[i].attempt
         /\ i < Len(trace) =>
              /\ trace[i + 1].ev = "reject"
              /\ trace[i + 1].attempt = trace[i].attempt
              /\ trace[i + 1].err = AbortException
         /\ i = Len(trace) => pc = "fetching" /\ timer = "fired"

\* the timer of the first attempt has fired and that attempt was given up;
\* the second attempt has its own timer, armed while its call is pending
C35_Witness ==
  /\ pc = "fetching"
  /\ timer = "armed"
  /\ attempt = 1
  /\ Len(trace) = 5
  /\ trace[2].ev = "timeout" /\ trace[2].attempt = 0
  /\ trace[5].ev = "fetch" /\ trace[5].attempt = 1

(***************************************************************************)
(* C36: when the body text of a non-success response cannot be read, the   *)
(* body is taken as empty and the attempt is classified by its status      *)
(* alone: a transient status is retried (or, on the last attempt, its      *)
(* 'Gateway returned' error is raised), any other status raises the        *)
(* 'Gateway returned <status>' error; the failure of the read is never     *)
(* raised or recorded.                                                     *)
(***************************************************************************)
UnreadBodyError(i) ==
  NewError(GatewayReturnedMessage(trace[i - 1].status, args.path, <<>>))

C36_UnreadBodyIsTakenAsEmpty ==
  /\ \A i \in 1..Len(trace) :
       (trace[i].ev = "text" /\ ~trace[i].ok) =>
         /\ trace[i].text = <<>>
         /\ i > 1
         /\ trace[i - 1].ev = "response"
         /\ trace[i - 1].attempt = trace[i].attempt
         /\ ~ResponseOk(trace[i - 1].status)
         /\ IF isTransientError(trace[i - 1].status) /\ trace[i].attempt + 1 < MAX_RETRIES
            THEN /\ i < Len(trace)
                 /\ trace[i + 1] = SleepEvent(trace[i].attempt + 1, Backoff(trace[i].attempt + 1))
                 /\ i + 1 = Len(trace) => pc = "sleeping" /\ lastError = UnreadBodyError(i)
            ELSE /\ i = Len(trace)
                 /\ pc = "done"
                 /\ result = Raised(UnreadBodyError(i))
  /\ lastError # NoError => lastError.origin # "body"
  /\ (pc = "done" /\ result.kind = "raise") => result.error.origin # "body"

\* the body of a 503 could not be read and the attempt was retried; the
\* body of the 400 that followed could not be read either and the call
\* raised the error of that status with an empty body
C36_Witness ==
  /\ pc = "done"
  /\ Len(trace) = 7
  /\ trace[2] = ResponseEvent(0, 503)
  /\ trace[3] = TextEvent(0, FALSE, <<>>)
  /\ trace[4].ev = "sleep"
  /\ trace[6] = ResponseEvent(1, 400)
  /\ trace[7] = TextEvent(1, FALSE, <<>>)
  /\ result = Raised(NewError(GatewayReturnedMessage(400, args.path, <<>>)))

====
